---- MODULE Spec2Model ----
(***************************************************************************)
(* Decoding pipeline of the LLM trace viewer (src/index.ts): tokenizer,    *)
(* literal parser, line classifier, curl extractor, line preprocessor and  *)
(* the LiteLLM reconciler (fragment merge, collectors, output assembly).   *)
(*                                                                         *)
(* A JavaScript string is a sequence of characters; a character is a       *)
(* one-character TLA+ string, or a name for a character TLA+ cannot spell  *)
(* ("ESC", "BEL", "U+0060", ...).                                         *)
(***************************************************************************)
EXTENDS Integers, Sequences, FiniteSets, TLC

VARIABLES
  mAcc,      \* merge: the accumulated text (mergeChunk's `existing`)
  mPrev,     \* merge: the accumulator before the last merge
  mChunk,    \* merge: the chunk of the last merge
  mCount,    \* merge: number of merges done
  mFeed,     \* merge: "free" (any fragment) or "scenario" (the fixed stream)
  dLines,    \* dedup: the line list handed to deduplicateLines
  dOut,      \* dedup: the list after the passes done so far
  dPrev,     \* dedup: the list before the last pass
  dPasses,   \* dedup: number of deduplicateLines passes applied
  pLine,     \* classifier: the raw input line
  pResult,   \* classifier: parseLine's result (a Value; t = "none" before)
  pRaised,   \* classifier: TRUE when parseLine let an exception escape
  pBy,       \* classifier: which parseLine ran ("none" before)
  rLines,    \* reconciler: the lines of the text handed to normalizeLiteLLMText
  rLineNo,   \* reconciler: number of lines the loop has taken
  rPending,  \* reconciler: candidates of the current line not yet collected
  rCands,    \* reconciler: the candidates collected so far, in order
  rState,    \* reconciler: the LiteLLMState
  rOut,      \* reconciler: what normalizeLiteLLMText returned (done = FALSE before)
  rBy,       \* reconciler: "reconcile" while normalizeLiteLLMText runs
  jLines,    \* joiner: the raw lines handed to preprocessLines
  jOut,      \* joiner: what preprocessLines returned
  jDone,     \* joiner: TRUE once preprocessLines has returned
  tInput,    \* tokenizer: the input of tokenize
  tIndex,    \* tokenizer: the read index (0-based)
  tTokens,   \* tokenizer: the tokens pushed so far
  tBy,       \* tokenizer: the revision of tokenize that runs ("none": idle)
  sAcc,      \* merge sequence: the accumulator (a response channel of the state)
  sFrags     \* merge sequence: the fragments merged into it so far, in order

mvars == <<mAcc, mPrev, mChunk, mCount, mFeed>>
dvars == <<dLines, dOut, dPrev, dPasses>>
pvars == <<pLine, pResult, pRaised, pBy>>
rvars == <<rLines, rLineNo, rPending, rCands, rState, rOut, rBy>>
jvars == <<jLines, jOut, jDone>>
tvars == <<tInput, tIndex, tTokens, tBy>>
svars == <<sAcc, sFrags>>
vars == <<mAcc, mPrev, mChunk, mCount, mFeed, dLines, dOut, dPrev, dPasses,
          pLine, pResult, pRaised, pBy,
          rLines, rLineNo, rPending, rCands, rState, rOut, rBy,
          jLines, jOut, jDone,
          tInput, tIndex, tTokens, tBy,
          sAcc, sFrags>>

----------------------------------------------------------------------------
(* Characters *)

\* The printable ASCII characters in code order, U+0020 .. U+007E.
Printable ==
  << " ", "!", "\"", "#", "$", "%", "&", "'", "(", ")", "*", "+", ",", "-",
     ".", "/", "0", "1", "2", "3", "4", "5", "6", "7", "8", "9", ":", ";",
     "<", "=", ">", "?", "@", "A", "B", "C", "D", "E", "F", "G", "H", "I",
     "J", "K", "L", "M", "N", "O", "P", "Q", "R", "S", "T", "U", "V", "W",
     "X", "Y", "Z", "[", "\\", "]", "^", "_", "U+0060", "a", "b", "c", "d", "e",
     "f", "g", "h", "i", "j", "k", "l", "m", "n", "o", "p", "q", "r", "s",
     "t", "u", "v", "w", "x", "y", "z", "{", "|", "}", "~" >>

\* Characters outside printable ASCII that the model uses, with their codes.
Named ==
  << <<"NUL", 0>>, <<"SOH", 1>>, <<"BEL", 7>>, <<"BS", 8>>, <<"\t", 9>>,
     <<"\n", 10>>, <<"VT", 11>>, <<"FF", 12>>, <<"\r", 13>>, <<"ESC", 27>>,
     <<"DEL", 127>>, <<"U+00A0", 160>>, <<"U+00C3", 195>>, <<"U+00D7", 215>>,
     <<"U+2014", 8212>>, <<"U+FFFD", 65533>> >>

\* the UTF-16 code of a named character
NamedCode(c) == Named[CHOOSE i \in 1..Len(Named) : Named[i][1] = c][2]

\* the character of a set of candidates, "U+FFFD" standing in when the model
\* has none
OneOf(candidates) ==
  IF candidates = {} THEN "U+FFFD" ELSE CHOOSE c \in candidates : TRUE

\* String.fromCharCode(n)
CharOfCode(n) ==
  IF n >= 32 /\ n <= 126 THEN Printable[n - 31]
  ELSE OneOf({Named[i][1] : i \in {k \in 1..Len(Named) : Named[k][2] = n}})

Digits == <<"0", "1", "2", "3", "4", "5", "6", "7", "8", "9">>

IsDigit(c) == c \in {"0", "1", "2", "3", "4", "5", "6", "7", "8", "9"}   \* [0-9], \d

DigitValue(c) == (CHOOSE i \in 1..10 : Digits[i] = c) - 1

IsLetter(c) == \* [A-Za-z]
  c \in {"a", "b", "c", "d", "e", "f", "g", "h", "i", "j", "k", "l", "m",
         "n", "o", "p", "q", "r", "s", "t", "u", "v", "w", "x", "y", "z",
         "A", "B", "C", "D", "E", "F", "G", "H", "I", "J", "K", "L", "M",
         "N", "O", "P", "Q", "R", "S", "T", "U", "V", "W", "X", "Y", "Z"}

IsWord(c) == IsLetter(c) \/ IsDigit(c) \/ c = "_"   \* \w

\* \s of a JavaScript regular expression, and what String.prototype.trim
\* strips: of the model's characters, U+0009 .. U+000D, U+0020 and U+00A0
IsSpace(c) == c \in {"\t", "\n", "VT", "FF", "\r", " ", "U+00A0"}

\* the characters below U+0020
IsC0(c) == c \in {"NUL", "SOH", "BEL", "BS", "\t", "\n", "VT", "FF", "\r", "ESC"}

HexChars == <<"0","1","2","3","4","5","6","7","8","9","a","b","c","d","e","f">>
HexUpper == <<"0","1","2","3","4","5","6","7","8","9","A","B","C","D","E","F">>

IsHex(c) == \E i \in 1..16 : HexChars[i] = c \/ HexUpper[i] = c   \* [0-9a-fA-F]

HexDigit(c) == (CHOOSE i \in 1..16 : HexChars[i] = c \/ HexUpper[i] = c) - 1

\* String.fromCharCode(parseInt(hex, 16)) for four hexadecimal digits
FromHex4(hex) ==
  CharOfCode(4096 * HexDigit(hex[1]) + 256 * HexDigit(hex[2])
             + 16 * HexDigit(hex[3]) + HexDigit(hex[4]))

----------------------------------------------------------------------------
(* Strings as sequences of characters *)

Slice(s, from, to) == \* s.slice(from, to) with 0-based, end-exclusive indices
  IF to <= from THEN <<>> ELSE SubSeq(s, from + 1, to)

SliceFrom(s, from) == Slice(s, from, Len(s))

StartsWithAt(s, i, p) == \* p occurs in s at 0-based index i
  i + Len(p) <= Len(s) /\ SubSeq(s, i + 1, i + Len(p)) = p

includes(s, p) == \* String.prototype.includes
  \E i \in 0..Len(s) : StartsWithAt(s, i, p)

\* the least element of a set of indices, -1 for the empty set
First(S) == IF S = {} THEN -1 ELSE CHOOSE i \in S : \A j \in S : i <= j

\* the greatest element of a set of indices, -1 for the empty set
Last(S) == IF S = {} THEN -1 ELSE CHOOSE i \in S : \A j \in S : j <= i

IndexOf(s, c) == First({k \in 0..(Len(s) - 1) : s[k + 1] = c})   \* s.indexOf(c)

\* The end of the longest run of characters satisfying P that starts at the
\* 0-based index j: what a loop `while (j < s.length && P(s[j])) j++` leaves in
\* j, and where a greedy P* of a regular expression stops.
RunEnd(s, j, P(_)) ==
  IF j >= Len(s) THEN j
  ELSE CHOOSE k \in j..Len(s) :
         /\ k = Len(s) \/ ~P(s[k + 1])
         /\ \A m \in (j + 1)..k : P(s[m])

\* The start of the longest run of characters satisfying P that ends before
\* the 0-based index j.
RunStart(s, j, P(_)) ==
  IF j <= 0 THEN j
  ELSE CHOOSE k \in 0..j :
         /\ k = 0 \/ ~P(s[k])
         /\ \A m \in (k + 1)..j : P(s[m])

SkipSpace(s, j) == RunEnd(s, j, IsSpace)                     \* \s*
SkipDigits(s, j) == RunEnd(s, j, IsDigit)                    \* \d*
SkipWord(s, j) == RunEnd(s, j, IsWord)                       \* \w*

trimEnd(s) == Slice(s, 0, RunStart(s, Len(s), IsSpace))
trimStart(s) == SliceFrom(s, SkipSpace(s, 0))
trim(s) == trimStart(trimEnd(s))

\* Number.prototype.toString for a non-negative integer (template `${count}`)
RECURSIVE IntToStr(_)
IntToStr(n) ==
  IF n < 10 THEN <<Digits[n + 1]>>
  ELSE IntToStr(n \div 10) \o <<Digits[(n % 10) + 1]>>

\* (?:\.\d+)? at index i: the index after it
FractionEnd(s, i) ==
  IF i + 1 < Len(s) /\ s[i + 1] = "." /\ IsDigit(s[i + 2])
  THEN SkipDigits(s, i + 2) ELSE i

\* (?:[eE][+-]?\d+)? at index i: the index after it
ExponentEnd(s, i) ==
  LET d == IF i + 1 < Len(s) /\ s[i + 2] \in {"+", "-"} THEN i + 2 ELSE i + 1
  IN  IF i < Len(s) /\ s[i + 1] \in {"e", "E"} /\ d < Len(s) /\ IsDigit(s[d + 1])
      THEN SkipDigits(s, d) ELSE i

----------------------------------------------------------------------------
(* Fragment merge: mergeChunk and findOverlap *)

RECURSIVE OverlapFrom(_, _, _)
OverlapFrom(left, right, size) == \* the loop of findOverlap, from `size` down
  IF size <= 0 THEN 0
  ELSE IF SubSeq(left, Len(left) - size + 1, Len(left)) = SubSeq(right, 1, size)
       THEN size
       ELSE OverlapFrom(left, right, size - 1)

Min(a, b) == IF a < b THEN a ELSE b

\* Mutant of findOverlap: the loop runs upwards and returns the first size found.
RECURSIVE OverlapUpFrom(_, _, _)
OverlapUpFrom(left, right, size) ==
  IF size > Min(Len(left), Len(right)) THEN 0
  ELSE IF SubSeq(left, Len(left) - size + 1, Len(left)) = SubSeq(right, 1, size)
       THEN size
       ELSE OverlapUpFrom(left, right, size + 1)

findOverlapSmallest(left, right) == OverlapUpFrom(left, right, 1)

\* Mutant of findOverlap: the sizes are not compared, the longest possible
\* overlap is returned.
findOverlapAssumed(left, right) == Min(Len(left), Len(right))

findOverlap(left, right) == OverlapFrom(left, right, Min(Len(left), Len(right)))

\* Mutant of needsSpace: the two whitespace tests are dropped.
needsSpaceAlways(current, chunk) == Len(current) > 0 /\ Len(chunk) > 0

needsSpace(current, chunk) ==
  /\ Len(current) > 0
  /\ Len(chunk) > 0
  /\ ~IsSpace(current[Len(current)])
  /\ ~IsSpace(chunk[1])

\* Mutant of mergeChunk: the two containment tests return the wrong operand.
mergeChunkSwapped(existing, chunk) ==
  LET current == existing
      overlap == findOverlap(current, chunk)
  IN  IF current = <<>> THEN chunk
      ELSE IF includes(current, chunk) THEN chunk
      ELSE IF includes(chunk, current) THEN current
      ELSE IF overlap > 0 THEN current \o SliceFrom(chunk, overlap)
      ELSE IF needsSpace(current, chunk) THEN current \o <<" ">> \o chunk
      ELSE current \o chunk

\* Mutant of mergeChunk: an empty accumulator is returned instead of the chunk.
mergeChunkEmptyKeepsCurrent(existing, chunk) ==
  LET current == existing
      overlap == findOverlap(current, chunk)
  IN  IF current = <<>> THEN current
      ELSE IF includes(current, chunk) THEN current
      ELSE IF includes(chunk, current) THEN chunk
      ELSE IF overlap > 0 THEN current \o SliceFrom(chunk, overlap)
      ELSE IF needsSpace(current, chunk) THEN current \o <<" ">> \o chunk
      ELSE current \o chunk

mergeChunk(existing, chunk) ==
  LET current == existing
      overlap == findOverlap(current, chunk)
  IN  IF current = <<>> THEN chunk
      ELSE IF includes(current, chunk) THEN current
      ELSE IF includes(chunk, current) THEN chunk
      ELSE IF overlap > 0 THEN current \o SliceFrom(chunk, overlap)
      ELSE IF needsSpace(current, chunk) THEN current \o <<" ">> \o chunk
      ELSE current \o chunk

----------------------------------------------------------------------------
(* Values.  A decoded value is a record tagged by t:                        *)
(*   [t |-> "null"], [t |-> "bool", b], [t |-> "num", m, e] (m * 10^e, m    *)
(*   without trailing zeros), [t |-> "str", s], [t |-> "arr", items],       *)
(*   [t |-> "obj", keys, vals] (own properties in enumeration order).       *)

NullV == [t |-> "null"]
BoolV(b) == [t |-> "bool", b |-> b]
StrV(s) == [t |-> "str", s |-> s]
ArrV(items) == [t |-> "arr", items |-> items]
ObjV(keys, vals) == [t |-> "obj", keys |-> keys, vals |-> vals]
EmptyObj == ObjV(<<>>, <<>>)

Abs(n) == IF n < 0 THEN 0 - n ELSE n

RECURSIVE Normalize10(_, _)
Normalize10(m, e) == \* m * 10^e with the trailing zeros of m moved into e
  IF m = 0 THEN [t |-> "num", m |-> 0, e |-> 0]
  ELSE IF m % 10 = 0 THEN Normalize10(m \div 10, e + 1)
  ELSE [t |-> "num", m |-> m, e |-> e]

NumV(m, e) == Normalize10(m, e)

RECURSIVE DigitsToInt(_)
DigitsToInt(ds) ==
  IF ds = <<>> THEN 0
  ELSE 10 * DigitsToInt(SubSeq(ds, 1, Len(ds) - 1)) + DigitValue(ds[Len(ds)])

Zeros(n) == [i \in 1..n |-> "0"]

\* The largest double is 1.7976931348623157 * 10^308: a decimal literal above
\* it converts to Infinity, and one below 10^-324 converts to 0.  Between
\* 10^-307 and the largest double, and up to 9 significant digits, where the
\* model and its inputs stay, the conversion is exact.
MaxDoubleDigits ==
  <<"1","7","9","7","6","9","3","1","3","4","8","6","2","3","1","5","7">>

RECURSIVE DigitsAbove(_, _, _)
DigitsAbove(d, ref, i) == \* d, read as 0.d, is above 0.ref
  IF i > Len(d) \/ i > Len(ref) THEN FALSE
  ELSE IF d[i] # ref[i] THEN DigitValue(d[i]) > DigitValue(ref[i])
  ELSE DigitsAbove(d, ref, i + 1)

\* the decimal exponent of a non-zero number: 10^x <= |v| < 10^(x + 1)
Magnitude(v) == Len(IntToStr(Abs(v.m))) + v.e - 1

IsInfinite(v) ==
  /\ v.t = "num" /\ v.m # 0
  /\ \/ Magnitude(v) > 308
     \/ Magnitude(v) = 308 /\ DigitsAbove(IntToStr(Abs(v.m)), MaxDoubleDigits, 1)

\* a number so small that the conversion gives 0
Underflow(v) == IF v.m # 0 /\ Magnitude(v) < -324 THEN NumV(0, 0) ELSE v

\* a number above the largest double converts to Infinity, held as +-10^309
Overflow(v) ==
  IF IsInfinite(v) THEN [t |-> "num", m |-> IF v.m < 0 THEN -1 ELSE 1, e |-> 309] ELSE v

\* the value of [+-]?\d+, 0 for the empty text
SignedInt(text) ==
  IF text = <<>> THEN 0
  ELSE IF text[1] = "-" THEN 0 - DigitsToInt(Tail(text))
  ELSE IF text[1] = "+" THEN DigitsToInt(Tail(text))
  ELSE DigitsToInt(text)

IsZero(c) == c = "0"

\* the number whose decimal digits are `digits`, times 10^e: the trailing zeros
\* of the digits go into the exponent
DecimalV(negative, digits, significant, e) ==
  Overflow(Underflow(NumV(IF negative THEN 0 - DigitsToInt(Slice(digits, 0, significant))
                          ELSE DigitsToInt(Slice(digits, 0, significant)),
                          e + Len(digits) - significant)))

\* Number(text) for the digits of text from i0, with the "." at index dot and
\* the exponent letter at index ex (-1: none)
NumberParts(text, i0, dot, ex) ==
  LET mantEnd == IF ex >= 0 THEN ex ELSE Len(text)
      intDigits == Slice(text, i0, IF dot >= 0 THEN dot ELSE mantEnd)
      fracDigits == IF dot >= 0 THEN Slice(text, dot + 1, mantEnd) ELSE <<>>
  IN  DecimalV(i0 = 1, intDigits \o fracDigits,
               RunStart(intDigits \o fracDigits, Len(intDigits) + Len(fracDigits), IsZero),
               SignedInt(IF ex >= 0 THEN SliceFrom(text, ex + 1) ELSE <<>>)
               - Len(fracDigits))

\* Number(text) for text matching -?\d+(\.\d+)?([eE][+-]?\d+)?
ToNumber(text) ==
  NumberParts(text, IF text[1] = "-" THEN 1 ELSE 0, IndexOf(text, "."),
              First({k \in 0..(Len(text) - 1) : text[k + 1] \in {"e", "E"}}))

\* Number::toString (radix 10), as String(n) and JSON.stringify use it: the
\* digits d of the number, which is 0.d * 10^n
NumToStrDigits(v, d, n) ==
  IF v.m = 0 THEN <<"0">>
  ELSE IF Len(d) <= n /\ n <= 21 THEN d \o Zeros(n - Len(d))
  ELSE IF 0 < n /\ n <= 21 THEN SubSeq(d, 1, n) \o <<".">> \o SubSeq(d, n + 1, Len(d))
  ELSE IF -6 < n /\ n <= 0 THEN <<"0", ".">> \o Zeros(0 - n) \o d
  ELSE (IF Len(d) = 1 THEN d ELSE <<d[1], ".">> \o SubSeq(d, 2, Len(d)))
       \o <<"e", IF n - 1 < 0 THEN "-" ELSE "+">> \o IntToStr(Abs(n - 1))

NumToStr(v) ==
  (IF v.m < 0 THEN <<"-">> ELSE <<>>)
  \o (IF IsInfinite(v) THEN <<"I","n","f","i","n","i","t","y">>
      ELSE NumToStrDigits(v, IntToStr(Abs(v.m)), Magnitude(v) + 1))

----------------------------------------------------------------------------
(* Objects: own string-keyed properties in JavaScript's enumeration order:  *)
(* array-index keys ascending first, then the other keys in insertion order *)

IsIndexKey(key) == \* a canonical array index ("0", "7", "42"; not "01")
  /\ key # <<>>
  /\ Len(key) <= 9
  /\ \A i \in 1..Len(key) : IsDigit(key[i])
  /\ (Len(key) > 1 => key[1] # "0")

HasKey(obj, key) == \E i \in 1..Len(obj.keys) : obj.keys[i] = key

KeyIndex(obj, key) == CHOOSE i \in 1..Len(obj.keys) : obj.keys[i] = key

Get(obj, key) == obj.vals[KeyIndex(obj, key)]

InsertAt(seq, pos, x) == \* x becomes element pos
  SubSeq(seq, 1, pos - 1) \o <<x>> \o SubSeq(seq, pos, Len(seq))

\* where a new key goes
InsertPos(obj, key) ==
  IF IsIndexKey(key)
  THEN 1 + Cardinality({i \in 1..Len(obj.keys) :
                          IsIndexKey(obj.keys[i])
                          /\ DigitsToInt(obj.keys[i]) < DigitsToInt(key)})
  ELSE Len(obj.keys) + 1

\* CreateDataProperty(obj, key, val): what JSON.parse and an object literal do
DefineKey(obj, key, val) ==
  IF HasKey(obj, key)
  THEN ObjV(obj.keys, [obj.vals EXCEPT ![KeyIndex(obj, key)] = val])
  ELSE ObjV(InsertAt(obj.keys, InsertPos(obj, key), key),
            InsertAt(obj.vals, InsertPos(obj, key), val))

ProtoKey == <<"_", "_", "p", "r", "o", "t", "o", "_", "_">>

\* obj[key] = val on an ordinary object: the key __proto__ reaches the
\* inherited setter and creates no own property
SetKey(obj, key, val) ==
  IF key = ProtoKey THEN obj ELSE DefineKey(obj, key, val)

----------------------------------------------------------------------------
(* JSON.stringify and JSON.parse *)

\* QuoteJSONString for one character
JsonEscape(c) ==
  CASE c = "\"" -> <<"\\", "\"">>
    [] c = "\\" -> <<"\\", "\\">>
    [] c = "BS" -> <<"\\", "b">>
    [] c = "FF" -> <<"\\", "f">>
    [] c = "\n" -> <<"\\", "n">>
    [] c = "\r" -> <<"\\", "r">>
    [] c = "\t" -> <<"\\", "t">>
    [] OTHER ->
         IF IsC0(c)
         THEN <<"\\", "u", "0", "0", HexChars[(NamedCode(c) \div 16) + 1],
                HexChars[(NamedCode(c) % 16) + 1]>>
         ELSE <<c>>

RECURSIVE Join(_, _)
Join(seqs, sep) == \* Array.prototype.join, computed by halves
  IF seqs = <<>> THEN <<>>
  ELSE IF Len(seqs) = 1 THEN seqs[1]
  ELSE Join(SubSeq(seqs, 1, Len(seqs) \div 2), sep) \o sep
       \o Join(SubSeq(seqs, (Len(seqs) \div 2) + 1, Len(seqs)), sep)

QuoteJson(str) ==
  <<"\"">> \o Join([i \in 1..Len(str) |-> JsonEscape(str[i])], <<>>) \o <<"\"">>

RECURSIVE JsonStringify(_)
JsonStringify(v) ==
  CASE v.t = "null" -> <<"n", "u", "l", "l">>
    [] v.t = "bool" -> IF v.b THEN <<"t", "r", "u", "e">> ELSE <<"f", "a", "l", "s", "e">>
    [] v.t = "num" -> IF IsInfinite(v) THEN <<"n", "u", "l", "l">> ELSE NumToStr(v)
    [] v.t = "str" -> QuoteJson(v.s)
    [] v.t = "arr" ->
         <<"[">> \o Join([i \in 1..Len(v.items) |-> JsonStringify(v.items[i])], <<",">>)
         \o <<"]">>
    [] v.t = "obj" ->
         <<"{">>
         \o Join([i \in 1..Len(v.keys) |->
                    QuoteJson(v.keys[i]) \o <<":">> \o JsonStringify(v.vals[i])], <<",">>)
         \o <<"}">>

\* A parse step's result: ok, the value, and the index after it.
Ok(value, index) == [ok |-> TRUE, value |-> value, index |-> index]
Fail(index) == [ok |-> FALSE, value |-> NullV, index |-> index]

IsJsonSpace(c) == c \in {" ", "\t", "\n", "\r"}

JSkipWs(s, i) == RunEnd(s, i, IsJsonSpace)

JsonUnescape(c) ==
  CASE c = "\"" -> "\"" [] c = "\\" -> "\\" [] c = "/" -> "/" [] c = "b" -> "BS"
    [] c = "f" -> "FF" [] c = "n" -> "\n" [] c = "r" -> "\r" [] c = "t" -> "\t"

\* a character a JSON string holds as it is
IsJsonPlain(c) == c # "\"" /\ c # "\\" /\ ~IsC0(c)

RECURSIVE JStringBody(_, _, _)

\* a JSON string at the first character i that is not plain, acc before it
JStringEnd(s, i, acc) ==
  IF i >= Len(s) THEN Fail(i)
  ELSE IF s[i + 1] = "\"" THEN Ok(StrV(acc), i + 1)
  ELSE IF s[i + 1] # "\\" \/ i + 1 >= Len(s) THEN Fail(i)   \* a control character
  ELSE IF s[i + 2] = "u"
  THEN IF i + 6 <= Len(s) /\ \A k \in 3..6 : IsHex(s[i + k])
       THEN JStringBody(s, i + 6, Append(acc, FromHex4(Slice(s, i + 2, i + 6))))
       ELSE Fail(i)
  ELSE IF s[i + 2] \in {"\"", "\\", "/", "b", "f", "n", "r", "t"}
  THEN JStringBody(s, i + 2, Append(acc, JsonUnescape(s[i + 2])))
  ELSE Fail(i)

JStringBody(s, i, acc) == \* after the opening quote, or after an escape
  JStringEnd(s, RunEnd(s, i, IsJsonPlain),
             acc \o Slice(s, i, RunEnd(s, i, IsJsonPlain)))

\* -?(0|[1-9]\d*) at index i: the index after it, or i if none
JIntegerEnd(s, i) ==
  LET d == IF i < Len(s) /\ s[i + 1] = "-" THEN i + 1 ELSE i
  IN  IF d >= Len(s) \/ ~IsDigit(s[d + 1]) THEN i
      ELSE IF s[d + 1] = "0" THEN d + 1
      ELSE SkipDigits(s, d)

\* end of the longest JSON number at i, or i if none:
\* -?(0|[1-9]\d*)(\.\d+)?([eE][+-]?\d+)?
JNumberEnd(s, i) ==
  IF JIntegerEnd(s, i) = i THEN i
  ELSE ExponentEnd(s, FractionEnd(s, JIntegerEnd(s, i)))

RECURSIVE JValue(_, _)
RECURSIVE JElements(_, _, _)
RECURSIVE JMembers(_, _, _)

\* the elements of an array after the element r: "," and more, or "]"
JElements(s, items, r) ==
  LET j == JSkipWs(s, r.index)
  IN  IF ~r.ok \/ j >= Len(s) THEN Fail(j)
      ELSE IF s[j + 1] = "," THEN JElements(s, Append(items, r.value), JValue(s, j + 1))
      ELSE IF s[j + 1] = "]" THEN Ok(ArrV(Append(items, r.value)), j + 1)
      ELSE Fail(j)

\* a member's value r after its key: then "," and more, or "}"
JMemberValue(s, obj, key, r) ==
  LET j == JSkipWs(s, r.index)
  IN  IF ~r.ok \/ j >= Len(s) THEN Fail(j)
      ELSE IF s[j + 1] = "," THEN JMembers(s, DefineKey(obj, key, r.value), j + 1)
      ELSE IF s[j + 1] = "}" THEN Ok(DefineKey(obj, key, r.value), j + 1)
      ELSE Fail(j)

\* a member's key k: then ":" and the value
JMemberKey(s, obj, k) ==
  LET c == JSkipWs(s, k.index)
  IN  IF k.ok /\ c < Len(s) /\ s[c + 1] = ":"
      THEN JMemberValue(s, obj, k.value.s, JValue(s, c + 1))
      ELSE Fail(c)

JMembers(s, obj, i0) == \* "key" : value, then "," and more or "}"
  LET i == JSkipWs(s, i0)
  IN  IF i < Len(s) /\ s[i + 1] = "\""
      THEN JMemberKey(s, obj, JStringBody(s, i + 1, <<>>))
      ELSE Fail(i)

\* the number that ends at index end, if end is after i
JNumber(s, i, end) ==
  IF end > i THEN Ok(ToNumber(Slice(s, i, end)), end) ELSE Fail(i)

JValue(s, i0) ==
  LET i == JSkipWs(s, i0)
      j == JSkipWs(s, i + 1)
  IN  IF i >= Len(s) THEN Fail(i)
      ELSE IF s[i + 1] = "\"" THEN JStringBody(s, i + 1, <<>>)
      ELSE IF s[i + 1] = "["
      THEN IF j < Len(s) /\ s[j + 1] = "]" THEN Ok(ArrV(<<>>), j + 1)
           ELSE JElements(s, <<>>, JValue(s, i + 1))
      ELSE IF s[i + 1] = "{"
      THEN IF j < Len(s) /\ s[j + 1] = "}" THEN Ok(EmptyObj, j + 1)
           ELSE JMembers(s, EmptyObj, i + 1)
      ELSE IF StartsWithAt(s, i, <<"t", "r", "u", "e">>) THEN Ok(BoolV(TRUE), i + 4)
      ELSE IF StartsWithAt(s, i, <<"f", "a", "l", "s", "e">>) THEN Ok(BoolV(FALSE), i + 5)
      ELSE IF StartsWithAt(s, i, <<"n", "u", "l", "l">>) THEN Ok(NullV, i + 4)
      ELSE JNumber(s, i, JNumberEnd(s, i))

\* the value r of the text, if only whitespace follows it
JsonWhole(text, r) ==
  IF r.ok /\ JSkipWs(text, r.index) = Len(text) THEN r ELSE Fail(r.index)

\* JSON.parse(text): ok = FALSE where it throws SyntaxError
JsonParse(text) == JsonWhole(text, JValue(text, 0))

----------------------------------------------------------------------------
(* Tokenizer.  The source holds two revisions of the decoder: the viewer    *)
(* (lines 1-762: single- and double-quoted strings, \uXXXX, null/true/false *)
(* in both spellings) and the LiteLLM reconciler (lines 764-1615: single    *)
(* quotes and the capitalized spellings only).  `profile` selects one.      *)

Viewer == "viewer"
LiteLLM == "litellm"

Token(type, value) == [type |-> type, value |-> value]

singleStringEscapes == \* also stringEscapes of the reconciler revision
  [c \in {"n", "r", "t", "\\", "'"} |->
     CASE c = "n" -> "\n" [] c = "r" -> "\r" [] c = "t" -> "\t"
       [] c = "\\" -> "\\" [] c = "'" -> "'"]

doubleStringEscapes ==
  [c \in {"n", "r", "t", "\\", "\"", "/", "b", "f"} |->
     CASE c = "n" -> "\n" [] c = "r" -> "\r" [] c = "t" -> "\t"
       [] c = "\\" -> "\\" [] c = "\"" -> "\"" [] c = "/" -> "/"
       [] c = "b" -> "BS" [] c = "f" -> "FF"]

QuoteChars(profile) == IF profile = Viewer THEN {"'", "\""} ELSE {"'"}

RECURSIVE StringBody(_, _, _, _)

\* The inner while loop of tokenize at index, the first backslash or quote (the
\* characters before it took the loop's last branch), with value read so far.
StringEnd(input, index, quote, value) ==
  LET hasNext == index + 1 < Len(input)
      escapes == IF quote = "\"" THEN doubleStringEscapes ELSE singleStringEscapes
      hex == Slice(input, index + 2, IF index + 6 < Len(input) THEN index + 6 ELSE Len(input))
  IN  IF index >= Len(input) THEN [value |-> value, index |-> index]
      ELSE IF input[index + 1] = "\\" /\ hasNext /\ quote = "\"" /\ input[index + 2] = "u"
              /\ Len(hex) = 4 /\ \A i \in 1..4 : IsHex(hex[i])
      THEN StringBody(input, index + 6, quote, Append(value, FromHex4(hex)))
      ELSE IF input[index + 1] = "\\" /\ hasNext /\ input[index + 2] \in DOMAIN escapes
      THEN StringBody(input, index + 2, quote, Append(value, escapes[input[index + 2]]))
      ELSE IF input[index + 1] = quote
      THEN [value |-> value, index |-> index + 1]
      ELSE StringBody(input, index + 1, quote, Append(value, input[index + 1]))

StringBody(input, index, quote, value) == \* the inner while loop of tokenize
  StringEnd(input, RunEnd(input, index, LAMBDA c : c # "\\" /\ c # quote), quote,
            value \o Slice(input, index,
                           RunEnd(input, index, LAMBDA c : c # "\\" /\ c # quote)))

\* length of the match of /^-?\d+(?:\.\d+)?(?:[eE][+-]?\d+)?/ at index, 0 if none
NumberMatchLen(input, index) ==
  LET d == IF input[index + 1] = "-" THEN index + 1 ELSE index
  IN  IF d >= Len(input) \/ ~IsDigit(input[d + 1]) THEN 0
      ELSE ExponentEnd(input, FractionEnd(input, SkipDigits(input, d))) - index

StringToken(body) == [pushed |-> Token("string", body.value), index |-> body.index]

NumberToken(input, index, len) ==
  [pushed |-> Token("number", Slice(input, index, index + len)), index |-> index + len]

IdentifierToken(input, index, end) ==
  [pushed |-> Token("identifier", Slice(input, index, end)), index |-> end]

\* One pass of the outer while loop of tokenize at a character that is not
\* whitespace: the token it pushes and the index it leaves.
NextToken(input, index, profile) ==
  IF input[index + 1] \in QuoteChars(profile)
  THEN StringToken(StringBody(input, index + 1, input[index + 1], <<>>))
  ELSE IF (input[index + 1] = "-" \/ IsDigit(input[index + 1]))
          /\ NumberMatchLen(input, index) > 0
  THEN NumberToken(input, index, NumberMatchLen(input, index))
  ELSE IF IsLetter(input[index + 1]) \/ input[index + 1] = "_"
  THEN IdentifierToken(input, index, SkipWord(input, index))
  ELSE [pushed |-> Token("punct", <<input[index + 1]>>), index |-> index + 1]

\* Mutant of IsTokenSpace: only the space is skipped.
IsTokenSpaceBlankOnly(c) == c = " "

\* char === " " || char === "\t" || char === "\n" || char === "\r"
IsTokenSpace(c) == c \in {" ", "\t", "\n", "\r"}

RECURSIVE TokenizeFrom(_, _, _)

\* the tokens from index on, token being the one pushed at index
TokenizeAfter(input, token, profile) ==
  <<token.pushed>> \o TokenizeFrom(input, token.index, profile)

TokenizeFrom(input, index, profile) == \* the outer while loop; whitespace is skipped
  IF RunEnd(input, index, IsTokenSpace) >= Len(input) THEN <<>>
  ELSE TokenizeAfter(input,
                     NextToken(input, RunEnd(input, index, IsTokenSpace), profile),
                     profile)

tokenize(input, profile) == TokenizeFrom(input, 0, profile)

----------------------------------------------------------------------------
(* Parser: recursive descent over the tokens.  A method that throws          *)
(* ParseError is a step that is not ok.                                      *)

TypeKey == <<"_", "_", "t", "y", "p", "e", "_", "_">>
ArgsKey == <<"_", "_", "a", "r", "g", "s", "_", "_">>

HasToken(tokens, index) == index >= 0 /\ index < Len(tokens)   \* peek(offset) is defined

isPunct(tokens, index, value) ==
  /\ HasToken(tokens, index)
  /\ tokens[index + 1].type = "punct"
  /\ tokens[index + 1].value = <<value>>

NullNames(profile) ==
  IF profile = Viewer THEN {<<"N","o","n","e">>, <<"n","u","l","l">>}
  ELSE {<<"N","o","n","e">>}
TrueNames(profile) ==
  IF profile = Viewer THEN {<<"T","r","u","e">>, <<"t","r","u","e">>}
  ELSE {<<"T","r","u","e">>}
FalseNames(profile) ==
  IF profile = Viewer THEN {<<"F","a","l","s","e">>, <<"f","a","l","s","e">>}
  ELSE {<<"F","a","l","s","e">>}

\* typeof keyValue is "string" or "number": String(keyValue); else JSON.stringify
DictKey(keyValue) ==
  IF keyValue.t = "str" THEN keyValue.s
  ELSE IF keyValue.t = "num" THEN NumToStr(keyValue)
  ELSE JsonStringify(keyValue)

RECURSIVE parseValue(_, _, _)
RECURSIVE ArrayLoop(_, _, _, _)
RECURSIVE DictLoop(_, _, _, _)
RECURSIVE ClassCallLoop(_, _, _, _, _)

\* consume(value) at index, then the result res
Closing(tokens, index, value, res) ==
  IF isPunct(tokens, index, value) THEN Ok(res, index + 1) ELSE Fail(index)

\* After a parsed item r of a bracketed list: a "," that the closing token does
\* not follow continues the loop (more = TRUE); else the loop ends and the
\* closing token is consumed at `index`.
AfterItem(tokens, r, close) ==
  [more |-> isPunct(tokens, r.index, ",") /\ ~isPunct(tokens, r.index + 1, close),
   index |-> IF isPunct(tokens, r.index, ",") THEN r.index + 1 ELSE r.index]

\* parseArray's loop after the element r
ArrayItem(tokens, r, items, profile) ==
  IF ~r.ok THEN r
  ELSE IF AfterItem(tokens, r, "]").more
  THEN ArrayLoop(tokens, r.index + 1, Append(items, r.value), profile)
  ELSE Closing(tokens, AfterItem(tokens, r, "]").index, "]", ArrV(Append(items, r.value)))

\* the while loop of parseArray, and the consume("]") after it
ArrayLoop(tokens, index, items, profile) ==
  IF isPunct(tokens, index, "]") THEN Closing(tokens, index, "]", ArrV(items))
  ELSE ArrayItem(tokens, parseValue(tokens, index, profile), items, profile)

parseArray(tokens, index, profile) == \* the token at index is "["
  ArrayLoop(tokens, index + 1, <<>>, profile)

\* parseDict's loop after the value v of the key
DictEntry(tokens, key, v, result, profile) ==
  IF ~v.ok THEN v
  ELSE IF AfterItem(tokens, v, "}").more
  THEN DictLoop(tokens, v.index + 1, SetKey(result, key, v.value), profile)
  ELSE Closing(tokens, AfterItem(tokens, v, "}").index, "}", SetKey(result, key, v.value))

\* parseDict's loop after the key value k: consume(":"), then the value
DictColon(tokens, k, result, profile) ==
  IF ~k.ok \/ ~isPunct(tokens, k.index, ":") THEN Fail(k.index)
  ELSE DictEntry(tokens, DictKey(k.value), parseValue(tokens, k.index + 1, profile),
                 result, profile)

\* the while loop of parseDict, and the consume("}") after it
DictLoop(tokens, index, result, profile) ==
  IF isPunct(tokens, index, "}") THEN Closing(tokens, index, "}", result)
  ELSE DictColon(tokens, parseValue(tokens, index, profile), result, profile)

parseDict(tokens, index, profile) == \* the token at index is "{"
  DictLoop(tokens, index + 1, EmptyObj, profile)

\* what parseClassCall returns after consume(")")
ClassCallResult(result, positional) ==
  IF Len(positional) > 0 THEN SetKey(result, ArgsKey, ArrV(positional)) ELSE result

\* Mutant of parseClassCall: every identifier starts a named argument.
IsNamedArgumentAnyIdentifier(tokens, index) ==
  HasToken(tokens, index) /\ tokens[index + 1].type = "identifier"

\* this.peek()?.type === "identifier" && this.peek(1)?.value === "="
IsNamedArgument(tokens, index) ==
  /\ HasToken(tokens, index)
  /\ tokens[index + 1].type = "identifier"
  /\ HasToken(tokens, index + 1)
  /\ tokens[index + 2].value = <<"=">>

\* parseClassCall's loop after an argument's value r, the argument having gone
\* to result or to positional
ClassCallArgument(tokens, r, result, positional, profile) ==
  IF ~r.ok THEN r
  ELSE IF AfterItem(tokens, r, ")").more
  THEN ClassCallLoop(tokens, r.index + 1, result, positional, profile)
  ELSE Closing(tokens, AfterItem(tokens, r, ")").index, ")",
               ClassCallResult(result, positional))

\* result[key] = parseValue() after consumeIdentifier() and consume("=")
NamedArgument(tokens, key, r, result, positional, profile) ==
  ClassCallArgument(tokens, r, SetKey(result, key, r.value), positional, profile)

\* positional.push(this.parseValue())
PositionalArgument(tokens, r, result, positional, profile) ==
  ClassCallArgument(tokens, r, result, Append(positional, r.value), profile)

\* the while loop of parseClassCall, and what follows it
ClassCallLoop(tokens, index, result, positional, profile) ==
  IF isPunct(tokens, index, ")")
  THEN Closing(tokens, index, ")", ClassCallResult(result, positional))
  ELSE IF ~IsNamedArgument(tokens, index)
  THEN PositionalArgument(tokens, parseValue(tokens, index, profile),
                          result, positional, profile)
  ELSE IF isPunct(tokens, index + 1, "=")
  THEN NamedArgument(tokens, tokens[index + 1].value,
                     parseValue(tokens, index + 2, profile), result, positional, profile)
  ELSE Fail(index + 1)

\* the tokens at index are the identifier `name` and "("
parseClassCall(tokens, index, name, profile) ==
  ClassCallLoop(tokens, index + 2, ObjV(<<TypeKey>>, <<StrV(name)>>), <<>>, profile)

\* "(" value ")": consume(")") after the inner value
Parenthesized(tokens, inner) ==
  IF ~inner.ok THEN inner ELSE Closing(tokens, inner.index, ")", inner.value)

\* parseValue at an identifier token
parseIdentifier(tokens, index, name, profile) ==
  IF name \in NullNames(profile) THEN Ok(NullV, index + 1)
  ELSE IF name \in TrueNames(profile) THEN Ok(BoolV(TRUE), index + 1)
  ELSE IF name \in FalseNames(profile) THEN Ok(BoolV(FALSE), index + 1)
  ELSE IF isPunct(tokens, index + 1, "(") THEN parseClassCall(tokens, index, name, profile)
  ELSE Ok(StrV(name), index + 1)

\* parseValue at the token `token` of index
parseToken(tokens, index, token, profile) ==
  IF token.type = "string" THEN Ok(StrV(token.value), index + 1)
  ELSE IF token.type = "number" THEN Ok(ToNumber(token.value), index + 1)
  ELSE IF token.type = "identifier" THEN parseIdentifier(tokens, index, token.value, profile)
  ELSE IF token.value = <<"[">> THEN parseArray(tokens, index, profile)
  ELSE IF token.value = <<"{">> THEN parseDict(tokens, index, profile)
  ELSE IF token.value = <<"(">>
  THEN Parenthesized(tokens, parseValue(tokens, index + 1, profile))
  ELSE Fail(index)

parseValue(tokens, index, profile) ==
  IF ~HasToken(tokens, index) THEN Fail(index)
  ELSE parseToken(tokens, index, tokens[index + 1], profile)

\* ensureComplete: no token is left at index
ensureComplete(tokens, index) == index >= Len(tokens)

\* sanitizeToJson after parser.parseValue() gave r: ensureComplete, stringify
Stringified(tokens, r) ==
  IF r.ok /\ ensureComplete(tokens, r.index)
  THEN [threw |-> FALSE, json |-> JsonStringify(r.value)]
  ELSE [threw |-> TRUE, json |-> <<>>]

\* sanitizeToJson after tokenize
Sanitized(tokens, profile) == Stringified(tokens, parseValue(tokens, 0, profile))

\* sanitizeToJson: threw = TRUE where it throws, else the JSON text
sanitizeToJson(input, profile) == Sanitized(tokenize(input, profile), profile)

NotOk == [ok |-> FALSE, value |-> NullV, threw |-> FALSE]   \* { ok: false }

\* { ok: true, value: JSON.parse(normalized) }
ParsedJson(v) ==
  IF v.ok THEN [ok |-> TRUE, value |-> v.value, threw |-> FALSE] ELSE NotOk

\* the try block of tryParseValue with sanitizeToJson's outcome j
TryJson(j) == IF j.threw THEN NotOk ELSE ParsedJson(JsonParse(j.json))

\* Mutant of tryParseValue: no try/catch, so the exception propagates.
Uncaught(r) == [r EXCEPT !.threw = ~r.ok]

tryParseValueNoCatch(input, profile) == Uncaught(TryJson(sanitizeToJson(input, profile)))

\* tryParseValue: {ok: true, value} or {ok: false}; threw = TRUE if an exception
\* leaves it, which its catch-all rules out
tryParseValue(input, profile) == TryJson(sanitizeToJson(input, profile))

----------------------------------------------------------------------------
(* Shell-command extractor: parseCurlCommand *)

NoText == [ok |-> FALSE, text |-> <<>>]          \* a match that is null
Text(text) == [ok |-> TRUE, text |-> text]       \* a match's capture

\* /^curl\s+/
CurlPrefixEnd(line) == \* index after the match, -1 if none
  IF StartsWithAt(line, 0, <<"c", "u", "r", "l">>) /\ SkipSpace(line, 4) > 4
  THEN SkipSpace(line, 4) ELSE -1

\* -X\s+\w+ anchored at i: the index after the match, -1 if none.  The word
\* starts at SkipSpace(line, i + 2).
FlagXEnd(line, i) ==
  LET w == SkipSpace(line, i + 2)
  IN  IF StartsWithAt(line, i, <<"-", "X">>) /\ w > i + 2
         /\ w < Len(line) /\ IsWord(line[w + 1])
      THEN SkipWord(line, w) ELSE -1

\* line.match(/-X\s+(\w+)/) when the first match is at i (-1: no match)
MethodAt(line, i) ==
  IF i < 0 THEN NoText ELSE Text(Slice(line, SkipSpace(line, i + 2), FlagXEnd(line, i)))

MethodMatch(line) ==
  MethodAt(line, First({k \in 0..Len(line) : FlagXEnd(line, k) >= 0}))

\* \s+ at e, the end of a match (-1: none): the index after it, -1 if none
SpaceAfter(line, e) ==
  IF e >= 0 /\ SkipSpace(line, e) > e THEN SkipSpace(line, e) ELSE -1

\* (?:^curl\s+|-X\s+\w+\s+) anchored at i: the index after it, -1 if none
UrlLeadEnd(line, i) ==
  IF i = 0 /\ CurlPrefixEnd(line) >= 0 THEN CurlPrefixEnd(line)
  ELSE SpaceAfter(line, FlagXEnd(line, i))

\* https?:\/\/\S+ anchored at j (-1: no lead before it): the index after the
\* match, -1 if none
UrlEnd(line, j) ==
  LET body == IF j < 0 THEN -1
              ELSE IF StartsWithAt(line, j, <<"h","t","t","p","s",":","/","/">>) THEN j + 8
              ELSE IF StartsWithAt(line, j, <<"h","t","t","p",":","/","/">>) THEN j + 7
              ELSE -1
  IN  IF body >= 0 /\ body < Len(line) /\ ~IsSpace(line[body + 1])
      THEN RunEnd(line, body, LAMBDA c : ~IsSpace(c)) ELSE -1

\* the match of the URL expression when the first match is at i (-1: no match)
UrlAt(line, i) ==
  IF i < 0 THEN NoText
  ELSE Text(Slice(line, UrlLeadEnd(line, i), UrlEnd(line, UrlLeadEnd(line, i))))

\* line.match(/(?:^curl\s+|-X\s+\w+\s+)(https?:\/\/\S+)/)
UrlMatch(line) ==
  UrlAt(line, First({k \in 0..Len(line) : UrlEnd(line, UrlLeadEnd(line, k)) >= 0}))

\* line.search(/\s-d\s/)
DataIndex(line) ==
  First({k \in 0..(Len(line) - 4) :
           /\ IsSpace(line[k + 1]) /\ line[k + 2] = "-" /\ line[k + 3] = "d"
           /\ IsSpace(line[k + 4])})

\* -H\s+'([^']+)' anchored at i: the capture's indices, or none
HeaderAt(text, i) ==
  LET q == SkipSpace(text, i + 2)
      e == RunEnd(text, q + 1, LAMBDA c : c # "'")
  IN  IF i >= 0 /\ StartsWithAt(text, i, <<"-", "H">>) /\ q > i + 2
         /\ q < Len(text) /\ text[q + 1] = "'"
         /\ e > q + 1 /\ e < Len(text)
      THEN [ok |-> TRUE, from |-> q + 1, to |-> e]
      ELSE [ok |-> FALSE, from |-> 0, to |-> 0]

\* the body of the header loop for the capture h
AddHeader(headers, h) ==
  LET colonIndex == IndexOf(h, ":")
  IN  IF colonIndex # -1
      THEN SetKey(headers, trim(Slice(h, 0, colonIndex)),
                  StrV(trim(SliceFrom(h, colonIndex + 1))))
      ELSE headers

RECURSIVE HeaderLoop(_, _, _)

\* headerRegex.exec(headerPart) matched at m (ok = FALSE: null, the loop ends)
HeaderFound(text, m, headers) ==
  IF ~m.ok THEN headers
  ELSE HeaderLoop(text, m.to + 1, AddHeader(headers, Slice(text, m.from, m.to)))

\* the while loop over headerRegex.exec(headerPart), from lastIndex
HeaderLoop(text, lastIndex, headers) ==
  HeaderFound(text,
              HeaderAt(text, First({k \in lastIndex..Len(text) : HeaderAt(text, k).ok})),
              headers)

\* /-d\s+'([\s\S]+)'\s*$/ on dataPart whose last quote is at index last (-1:
\* none): the capture.  The closing quote is the last quote of the text, with
\* only whitespace after it; the opening one follows the first -d\s+ it can.
DataBefore(dataPart, last) ==
  LET opens == {k \in 0..Len(dataPart) :
                  /\ StartsWithAt(dataPart, k, <<"-", "d">>)
                  /\ SkipSpace(dataPart, k + 2) > k + 2
                  /\ SkipSpace(dataPart, k + 2) < Len(dataPart)
                  /\ dataPart[SkipSpace(dataPart, k + 2) + 1] = "'"
                  /\ SkipSpace(dataPart, k + 2) + 1 < last}
  IN  IF last >= 0 /\ SkipSpace(dataPart, last + 1) = Len(dataPart) /\ opens # {}
      THEN Text(Slice(dataPart, SkipSpace(dataPart, First(opens) + 2) + 1, last))
      ELSE NoText

DataMatch(dataPart) ==
  DataBefore(dataPart, Last({k \in 0..(Len(dataPart) - 1) : dataPart[k + 1] = "'"}))

MethodKey == <<"m", "e", "t", "h", "o", "d">>
UrlKey == <<"u", "r", "l">>
HeadersKey == <<"h", "e", "a", "d", "e", "r", "s">>
BodyKey == <<"b", "o", "d", "y">>
CurlName == <<"c", "u", "r", "l">>

\* if (match) result[key] = match[1]
SetMatch(result, key, match) ==
  IF match.ok THEN SetKey(result, key, StrV(match.text)) ELSE result

\* if (Object.keys(headers).length > 0) result.headers = headers
SetHeaders(result, headers) ==
  IF Len(headers.keys) > 0 THEN SetKey(result, HeadersKey, headers) ELSE result

\* parseCurlCommand up to the headers
CurlHead(line, dataIndex) ==
  SetHeaders(
    SetMatch(SetMatch(ObjV(<<TypeKey>>, <<StrV(CurlName)>>), MethodKey, MethodMatch(line)),
             UrlKey, UrlMatch(line)),
    HeaderLoop(IF dataIndex # -1 THEN Slice(line, 0, dataIndex) ELSE line, 0, EmptyObj))

\* result.body = parsed.ok ? parsed.value : dataMatch[1]
CurlBody(result, text, parsed) ==
  [matched |-> TRUE, raised |-> parsed.threw,
   value |-> SetKey(result, BodyKey, IF parsed.ok THEN parsed.value ELSE StrV(text))]

\* parseCurlCommand from `if (dataIndex !== -1)` on
CurlData(result, dataMatch) ==
  IF dataMatch.ok THEN CurlBody(result, dataMatch.text, tryParseValue(dataMatch.text, Viewer))
  ELSE [matched |-> TRUE, raised |-> FALSE, value |-> result]

\* parseCurlCommand: matched = FALSE for null; raised = TRUE if an exception
\* leaves it
parseCurlCommand(line) ==
  IF CurlPrefixEnd(line) < 0
  THEN [matched |-> FALSE, raised |-> FALSE, value |-> NullV]
  ELSE CurlData(CurlHead(line, DataIndex(line)),
                IF DataIndex(line) # -1 THEN DataMatch(SliceFrom(line, DataIndex(line)))
                ELSE NoText)

----------------------------------------------------------------------------
(* stripAnsiAndControl *)

IsCsiParameter(c) == \* [0-?]
  c \in {"0", "1", "2", "3", "4", "5", "6", "7", "8", "9", ":", ";", "<", "=", ">", "?"}

IsCsiIntermediate(c) == \* [ -/]
  c \in {" ", "!", "\"", "#", "$", "%", "&", "'", "(", ")", "*", "+", ",", "-", ".", "/"}

IsCsiFinal(c) == \* [@-~]
  IsLetter(c) \/ c \in {"@", "[", "\\", "]", "^", "_", "U+0060", "{", "|", "}", "~"}

\* /\u001B\[[0-?]*[ -/]*[@-~]/ anchored at 0-based index i: the index after the
\* match, or -1.  The three classes are disjoint, so backtracking finds nothing
\* the greedy run does not.
CsiEnd(s, i) ==
  LET j == RunEnd(s, RunEnd(s, i + 2, IsCsiParameter), IsCsiIntermediate)
  IN  IF i + 1 < Len(s) /\ s[i + 1] = "ESC" /\ s[i + 2] = "["
         /\ j < Len(s) /\ IsCsiFinal(s[j + 1])
      THEN j + 1 ELSE -1

\* /\u001B\][^\u0007]*(?:\u0007|\u001B\\)/ anchored at i: [^\u0007]* runs to the
\* first BEL, which then closes the match; with no BEL ahead it runs to the end
\* and backtracks to the last ESC \ .
OscEnd(s, i) ==
  LET bel == First({j \in (i + 2)..(Len(s) - 1) : s[j + 1] = "BEL"})
      st == Last({j \in (i + 2)..(Len(s) - 2) : s[j + 1] = "ESC" /\ s[j + 2] = "\\"})
  IN  IF i + 1 >= Len(s) \/ s[i + 1] # "ESC" \/ s[i + 2] # "]" THEN -1
      ELSE IF bel >= 0 THEN bel + 1
      ELSE IF st >= 0 THEN st + 2
      ELSE -1

NotEsc(c) == c # "ESC"

\* input.replace(/\u001B\[...[@-~]/g, "") from 0-based index i: a match starts
\* at an ESC
RECURSIVE StripCsi(_, _)
StripCsi(s, i) ==
  LET p == RunEnd(s, i, NotEsc)
  IN  IF p >= Len(s) THEN SliceFrom(s, i)
      ELSE IF CsiEnd(s, p) >= 0 THEN Slice(s, i, p) \o StripCsi(s, CsiEnd(s, p))
      ELSE Slice(s, i, p + 1) \o StripCsi(s, p + 1)

\* .replace(/\u001B\]...(?:\u0007|\u001B\\)/g, "") from 0-based index i
RECURSIVE StripOsc(_, _)
StripOsc(s, i) ==
  LET p == RunEnd(s, i, NotEsc)
  IN  IF p >= Len(s) THEN SliceFrom(s, i)
      ELSE IF OscEnd(s, p) >= 0 THEN Slice(s, i, p) \o StripOsc(s, OscEnd(s, p))
      ELSE Slice(s, i, p + 1) \o StripOsc(s, p + 1)

\* [\u0000-\u0008\u000B\u000C\u000E-\u001F\u007F]
IsControl(c) == c \in {"NUL", "SOH", "BEL", "BS", "VT", "FF", "ESC", "DEL"}

NotControl(c) == ~IsControl(c)

stripAnsiAndControl(input) ==
  SelectSeq(StripOsc(StripCsi(input, 0), 0), NotControl)

----------------------------------------------------------------------------
(* Line classifier: parseLine *)

RawKey == <<"_", "_", "r", "a", "w", "_", "_">>
ExtrasKey == <<"_", "_", "e", "x", "t", "r", "a", "s", "_", "_">>

RawV(text) == ObjV(<<RawKey>>, <<StrV(text)>>)   \* { __raw__: text }

RECURSIVE SplitFrom(_, _, _)
SplitFrom(s, start, sep) == \* String.prototype.split on a one-character separator
  LET p == RunEnd(s, start, LAMBDA c : c # sep)
  IN  IF p >= Len(s) THEN <<SliceFrom(s, start)>>
      ELSE <<Slice(s, start, p)>> \o SplitFrom(s, p + 1, sep)

NotEmpty(part) == part # <<>>

\* the parts of `raw`, trimmed, without the empty ones
TrimmedParts(raw) == SelectSeq([i \in 1..Len(raw) |-> trim(raw[i])], NotEmpty)

\* Mutant of SplitParts: the line is split on "," instead of ";".
SplitPartsOnComma(s) == TrimmedParts(SplitFrom(s, 0, ","))

\* s.split(";").map((part) => part.trim()).filter(Boolean)
SplitParts(s) == TrimmedParts(SplitFrom(s, 0, ";"))

\* what `.` of a regular expression does not match
IsLineTerminator(c) == c \in {"\n", "\r"}

NoMatch == [ok |-> FALSE, key |-> <<>>, value |-> <<>>]

\* The tail \s*(=|:)\s*(.+)$ with the separator at index p: where (.+) starts,
\* -1 if it cannot.  \s* gives characters back until what is left is non-empty
\* and free of line terminators.
ValueStart(part, p) ==
  Last({j \in (p + 1)..SkipSpace(part, p + 1) :
          /\ j < Len(part)
          /\ \A k \in (j + 1)..Len(part) : ~IsLineTerminator(part[k])})

\* the match with the separator at index p and (.+) from index v
KeyValueAt(part, p, v) ==
  IF p < 1 \/ v < 0 THEN NoMatch
  ELSE [ok |-> TRUE,
        key |-> Slice(part, 0, First({k \in 1..p : \A j \in (k + 1)..p : IsSpace(part[j])})),
        value |-> SliceFrom(part, v)]

\* the match with the separator at index p (-1: the part has none)
KeyValueSplit(part, p) == KeyValueAt(part, p, IF p < 1 THEN -1 ELSE ValueStart(part, p))

\* part.match(/^([^:=]+?)\s*(=|:)\s*(.+)$/): match[1] and match[3].  The
\* separator is the first ":" or "="; the lazy key is the shortest prefix that
\* only whitespace separates from it.
KeyValueMatch(part) ==
  KeyValueSplit(part, First({k \in 0..(Len(part) - 1) : part[k + 1] \in {":", "="}}))

\* one pass of the for loop of parseLine, parsed being tryParseValue's result
PartParsed(acc, part, match, parsed) ==
  IF match.ok
  THEN [acc EXCEPT !.hasKeyValue = TRUE,
                   !.raised = @ \/ parsed.threw,
                   !.entries = SetKey(@, trim(match.key),
                                      IF parsed.ok THEN parsed.value
                                      ELSE StrV(trim(match.value)))]
  ELSE [acc EXCEPT !.raised = @ \/ parsed.threw,
                   !.extras = Append(@, IF parsed.ok THEN parsed.value ELSE StrV(part))]

\* one pass of the for loop, match being the result of part.match
PartMatched(acc, part, match, profile) ==
  PartParsed(acc, part, match,
             tryParseValue(IF match.ok THEN trim(match.value) ELSE part, profile))

\* The for loop of parseLine over parts[n..]: the entries, the extras, whether
\* a key/value part was seen, and whether an exception escaped.
RECURSIVE PartsLoop(_, _, _, _)
PartsLoop(parts, n, acc, profile) ==
  IF n > Len(parts) THEN acc
  ELSE PartsLoop(parts, n + 1,
                 PartMatched(acc, parts[n], KeyValueMatch(parts[n]), profile), profile)

Returns(value) == [raised |-> FALSE, value |-> value]
Raises == [raised |-> TRUE, value |-> [t |-> "none"]]

\* parseLine from `if (hasKeyValue)` on
SegmentResult(acc, rawText) ==
  IF acc.raised THEN Raises
  ELSE IF acc.hasKeyValue
  THEN Returns(IF Len(acc.extras) > 0
               THEN SetKey(acc.entries, ExtrasKey, ArrV(acc.extras))
               ELSE acc.entries)
  ELSE IF Len(acc.extras) = 1 THEN Returns(acc.extras[1])
  ELSE IF Len(acc.extras) > 1 THEN Returns(ArrV(acc.extras))
  ELSE Returns(RawV(rawText))

\* parseLine from `const parts = ...` on: the key/value segmentation
SegmentLine(trimmed, rawText, profile) ==
  SegmentResult(PartsLoop(SplitParts(trimmed), 1,
                          [entries |-> EmptyObj, extras |-> <<>>,
                           hasKeyValue |-> FALSE, raised |-> FALSE], profile),
                rawText)

\* the whole-line parse `direct` succeeded: the bare-word guard
DirectResult(direct, trimmed, rawText, profile) ==
  IF direct.value.t = "str" /\ \A q \in QuoteChars(profile) : trimmed[1] # q
  THEN RawV(rawText)
  ELSE direct.value

\* parseLine from `const direct = tryParseValue(trimmed)` on, direct being its
\* result
ParseDirect(direct, trimmed, rawText, profile) ==
  IF direct.threw THEN Raises
  ELSE IF direct.ok THEN Returns(DirectResult(direct, trimmed, rawText, profile))
  ELSE SegmentLine(trimmed, rawText, profile)

\* parseLine of the viewer from the try block on, jsonValue being the result
\* of JSON.parse(trimmed)
ParseJson(jsonValue, trimmed, normalized) ==
  IF jsonValue.ok /\ jsonValue.value.t \in {"obj", "arr"} THEN Returns(jsonValue.value)
  ELSE ParseDirect(tryParseValue(trimmed, Viewer), trimmed, normalized, Viewer)

\* Mutant of parseLine: the result of parseCurlCommand is not looked at.
ParseCurlSkipped(curlResult, trimmed, normalized) ==
  ParseJson(JsonParse(trimmed), trimmed, normalized)

\* parseLine of the viewer after parseCurlCommand(trimmed) gave curlResult
ParseCurl(curlResult, trimmed, normalized) ==
  IF curlResult.raised THEN Raises
  ELSE IF curlResult.matched THEN Returns(curlResult.value)
  ELSE ParseJson(JsonParse(trimmed), trimmed, normalized)

\* parseLine of the viewer after stripAnsiAndControl and trim
ParseNormalized(trimmed, normalized) ==
  IF trimmed = <<>> THEN Returns(StrV(<<>>))
  ELSE ParseCurl(parseCurlCommand(trimmed), trimmed, normalized)

\* parseLine of the viewer (lines 331-391)
parseLine(line) ==
  ParseNormalized(trim(stripAnsiAndControl(line)), stripAnsiAndControl(line))

\* parseLine of the LiteLLM reconciler revision (lines 1065-1112)
parseLineLiteLLM(line) ==
  IF trim(line) = <<>> THEN Returns(StrV(<<>>))
  ELSE ParseDirect(tryParseValue(trim(line), LiteLLM), trim(line), line, LiteLLM)

----------------------------------------------------------------------------
(* Line preprocessor: deduplicateLines *)

\* the template literal of the source: space, "(", the two characters U+00C3
\* and U+2014, the count, ")"
RepeatSuffix(count) ==
  <<" ", "(", "U+00C3", "U+2014">> \o IntToStr(count) \o <<")">>

normalizedLine(line) == trim(stripAnsiAndControl(line))

RECURSIVE RunCount(_, _, _, _)
RunCount(lines, i, normalized, count) == \* the inner while loop
  IF i + count < Len(lines) /\ normalizedLine(lines[i + count + 1]) = normalized
  THEN RunCount(lines, i, normalized, count + 1)
  ELSE count

RECURSIVE DedupFrom(_, _)
DedupFrom(lines, i) == \* the outer while loop, from 0-based index i
  IF i >= Len(lines) THEN <<>>
  ELSE LET current == lines[i + 1]
           normalized == normalizedLine(current)
           count == RunCount(lines, i, normalized, 1)
       IN  << IF count > 1 /\ normalized # <<>>
              THEN current \o RepeatSuffix(count)
              ELSE current >>
           \o DedupFrom(lines, i + count)

deduplicateLines(lines) == IF Len(lines) = 0 THEN lines ELSE DedupFrom(lines, 0)

----------------------------------------------------------------------------
(* Line preprocessor: preprocessLines, the joining of continuation lines *)

\* line.trimEnd().endsWith("\\")
EndsWithBackslash(line) ==
  trimEnd(line) # <<>> /\ trimEnd(line)[Len(trimEnd(line))] = "\\"

DropLast(s) == Slice(s, 0, Len(s) - 1)   \* s.slice(0, -1)

\* Mutant of ContinuationPiece: a later line of a group is only right-trimmed.
ContinuationPieceRightTrimmed(next) ==
  IF EndsWithBackslash(next) THEN DropLast(trimEnd(next)) ELSE trimEnd(next)

\* what a later line of a group adds after the space
ContinuationPiece(next) ==
  IF EndsWithBackslash(next) THEN DropLast(trim(next)) ELSE trim(next)

\* The inner while loop from the 1-based index i: the joined text and the index
\* the outer loop goes on from.
RECURSIVE JoinFrom(_, _, _)
JoinFrom(rawLines, i, joined) ==
  IF i > Len(rawLines) THEN [joined |-> joined, next |-> i]
  ELSE IF EndsWithBackslash(rawLines[i])
  THEN JoinFrom(rawLines, i + 1, joined \o <<" ">> \o ContinuationPiece(rawLines[i]))
  ELSE [joined |-> joined \o <<" ">> \o ContinuationPiece(rawLines[i]), next |-> i + 1]

RECURSIVE PreprocessFrom(_, _)

\* result.push(joined) and the rest of the outer loop
GroupPushed(rawLines, group) ==
  <<group.joined>> \o PreprocessFrom(rawLines, group.next)

\* the outer while loop from the 1-based index i
PreprocessFrom(rawLines, i) ==
  IF i > Len(rawLines) THEN <<>>
  ELSE IF EndsWithBackslash(rawLines[i])
  THEN GroupPushed(rawLines, JoinFrom(rawLines, i + 1, DropLast(trimEnd(rawLines[i]))))
  ELSE <<rawLines[i]>> \o PreprocessFrom(rawLines, i + 1)

preprocessLines(rawLines) == PreprocessFrom(rawLines, 1)

----------------------------------------------------------------------------
(* LiteLLM reconciler: normalizeLiteLLMText and its collectors.  The state   *)
(* (LiteLLMState) is a record; promptByRole holds the entries of the Map and *)
(* promptExtras the members of the Set, both in insertion order.             *)

ModelKey == <<"m","o","d","e","l">>
MessagesKey == <<"m","e","s","s","a","g","e","s">>
RoleKey == <<"r","o","l","e">>
ContentKey == <<"c","o","n","t","e","n","t">>
TextKey == <<"t","e","x","t">>
ValueKey == <<"v","a","l","u","e">>
ReasoningKey == <<"r","e","a","s","o","n","i","n","g">>
ReasoningContentKey ==
  <<"r","e","a","s","o","n","i","n","g","_","c","o","n","t","e","n","t">>
PromptKey == <<"p","r","o","m","p","t">>
InputKey == <<"i","n","p","u","t">>
UserPromptKey == <<"u","s","e","r","_","p","r","o","m","p","t">>
SystemPromptKey == <<"s","y","s","t","e","m","_","p","r","o","m","p","t">>
DefaultRole == <<"m","e","s","s","a","g","e">>
RawChunkMarker ==
  <<"R","a","w"," ","O","p","e","n","A","I"," ","C","h","u","n","k">>

\* key === "prompt" || key === "input" || key === "user_prompt" || ...
PromptFieldKeys == {PromptKey, InputKey, UserPromptKey, SystemPromptKey}

\* key === "content" || key === "text" || key === "reasoning" || ...
ResponseFieldKeys == {ContentKey, TextKey, ReasoningKey, ReasoningContentKey}

Undefined == [t |-> "none"]

\* record[key], undefined when the record has no such property
Field(record, key) == IF HasKey(record, key) THEN Get(record, key) ELSE Undefined

\* the state normalizeLiteLLMText starts from
InitialState ==
  [promptByRole |-> <<>>, promptMessages |-> <<>>, promptExtras |-> <<>>,
   responseContent |-> <<>>, responseReasoning |-> <<>>, responseText |-> <<>>,
   model |-> <<>>]

RECURSIVE extractMessageContent(_)

\* content.map((item) => extractMessageContent(item)).join("")
ContentOfItems(items) ==
  Join([i \in 1..Len(items) |-> extractMessageContent(items[i])], <<>>)

\* the text, content or value property of a record, the first that is a string
ContentOfRecord(record) ==
  IF Field(record, TextKey).t = "str" THEN Field(record, TextKey).s
  ELSE IF Field(record, ContentKey).t = "str" THEN Field(record, ContentKey).s
  ELSE IF Field(record, ValueKey).t = "str" THEN Field(record, ValueKey).s
  ELSE <<>>

extractMessageContent(content) ==
  IF content.t = "str" THEN content.s
  ELSE IF content.t = "arr" THEN ContentOfItems(content.items)
  ELSE IF content.t = "obj" THEN ContentOfRecord(content)
  ELSE <<>>

\* Mutant of appendPromptSequence: every message is pushed as a new entry.
appendPromptSequenceAlwaysPush(messages, role, content) ==
  Append(messages, [role |-> role, content |-> content])

\* appendPromptSequence on state.promptMessages: the new list
appendPromptSequence(messages, role, content) ==
  IF messages # <<>> /\ messages[Len(messages)].role = role
  THEN [messages EXCEPT ![Len(messages)].content = mergeChunk(@, content)]
  ELSE Append(messages, [role |-> role, content |-> content])

\* the index of role in the Map, 0 when it is not a key
RoleIndex(byRole, role) ==
  IF \E i \in 1..Len(byRole) : byRole[i].role = role
  THEN CHOOSE i \in 1..Len(byRole) : byRole[i].role = role
  ELSE 0

\* state.promptByRole.set(role, mergeChunk(state.promptByRole.get(role) ?? "",
\* content)), at being the index of role
SetRoleAt(byRole, at, role, content) ==
  IF at = 0 THEN Append(byRole, [role |-> role, content |-> mergeChunk(<<>>, content)])
  ELSE [byRole EXCEPT ![at].content = mergeChunk(@, content)]

\* collectPromptMessage from `if (content.trim())` on, content being trimmed
PromptCollected(st, role, content) ==
  IF content = <<>> THEN st
  ELSE [st EXCEPT
          !.promptByRole = SetRoleAt(@, RoleIndex(@, role), role, content),
          !.promptMessages = appendPromptSequence(@, role, content)]

collectPromptMessage(message, st) ==
  IF message.t = "obj"
  THEN PromptCollected(st,
                       IF Field(message, RoleKey).t = "str"
                       THEN Field(message, RoleKey).s ELSE DefaultRole,
                       trim(extractMessageContent(Field(message, ContentKey))))
  ELSE st   \* an array has no role and no content: nothing is collected

RECURSIVE CollectMessages(_, _, _)
CollectMessages(messages, i, st) == \* the for loop over record.messages
  IF i > Len(messages) THEN st
  ELSE CollectMessages(messages, i + 1, collectPromptMessage(messages[i], st))

\* state.promptExtras.add(text)
AddExtra(extras, text) ==
  IF \E i \in 1..Len(extras) : extras[i] = text THEN extras ELSE Append(extras, text)

\* the state after a non-blank string in a response field
ResponseMerged(st, key, trimmed) ==
  IF key = ContentKey
  THEN [st EXCEPT !.responseContent = mergeChunk(@, trimmed)]
  ELSE IF key \in {ReasoningKey, ReasoningContentKey}
  THEN [st EXCEPT !.responseReasoning = mergeChunk(@, trimmed)]
  ELSE [st EXCEPT !.responseText = mergeChunk(@, trimmed)]

RECURSIVE collectLiteLLMData(_, _)

\* Mutant of CollectEntry: the recognized fields of the record are collected,
\* the value of no field is descended into.
CollectEntryFlat(key, entry, st) ==
  IF key \in PromptFieldKeys /\ entry.t = "str" /\ trim(entry.s) # <<>>
  THEN [st EXCEPT !.promptExtras = AddExtra(@, trim(entry.s))]
  ELSE IF key \in ResponseFieldKeys /\ entry.t = "str" /\ trim(entry.s) # <<>>
  THEN ResponseMerged(st, key, trim(entry.s))
  ELSE st

\* one pass of the for loop over Object.entries(record)
CollectEntry(key, entry, st) ==
  IF key = MessagesKey THEN st
  ELSE IF key \in PromptFieldKeys
  THEN IF entry.t = "str" /\ trim(entry.s) # <<>>
       THEN [st EXCEPT !.promptExtras = AddExtra(@, trim(entry.s))]
       ELSE st
  ELSE IF key \in ResponseFieldKeys /\ entry.t = "str"
  THEN IF trim(entry.s) = <<>> THEN st
       ELSE collectLiteLLMData(entry, ResponseMerged(st, key, trim(entry.s)))
  ELSE collectLiteLLMData(entry, st)

RECURSIVE CollectEntries(_, _, _)
CollectEntries(record, i, st) == \* the for loop over Object.entries(record)
  IF i > Len(record.keys) THEN st
  ELSE CollectEntries(record, i + 1, CollectEntry(record.keys[i], record.vals[i], st))

RECURSIVE CollectItems(_, _, _)
CollectItems(items, i, st) == \* the for loop over the items of an array
  IF i > Len(items) THEN st
  ELSE CollectItems(items, i + 1, collectLiteLLMData(items[i], st))

\* Mutant of CollectModel: a later model field replaces the captured one.
CollectModelLastWins(record, st) ==
  IF Field(record, ModelKey).t = "str"
  THEN [st EXCEPT !.model = Field(record, ModelKey).s]
  ELSE st

\* if (typeof record.model === "string" && !state.model) state.model = ...
CollectModel(record, st) ==
  IF Field(record, ModelKey).t = "str" /\ st.model = <<>>
  THEN [st EXCEPT !.model = Field(record, ModelKey).s]
  ELSE st

\* if (Array.isArray(record.messages)) for (const message of ...)
CollectRecordMessages(record, st) ==
  IF Field(record, MessagesKey).t = "arr"
  THEN CollectMessages(Field(record, MessagesKey).items, 1, st)
  ELSE st

collectLiteLLMData(value, st) ==
  IF value.t = "arr" THEN CollectItems(value.items, 1, st)
  ELSE IF value.t # "obj" THEN st
  ELSE CollectEntries(value, 1, CollectRecordMessages(value, CollectModel(value, st)))

\* the candidates of the key/value parts parts[n..]: the values of those that
\* match /^[^:=]+\s*(=|:)\s*(.+)$/ (the separator is the first ":" or "=", as
\* for the classifier's pattern) and parse
RECURSIVE PartCandidates(_, _)

PartCandidate(match, parsed) ==
  IF match.ok /\ parsed.ok THEN <<parsed.value>> ELSE <<>>

PartCandidateOf(part, match) ==
  PartCandidate(match, IF match.ok THEN tryParseValue(trim(match.value), LiteLLM)
                       ELSE NotOk)

PartCandidates(parts, n) ==
  IF n > Len(parts) THEN <<>>
  ELSE PartCandidateOf(parts[n], KeyValueMatch(parts[n])) \o PartCandidates(parts, n + 1)

\* the candidate parseLine's result gives: a record that is not a raw wrapper
LineCandidate(parsed) ==
  IF ~parsed.raised /\ parsed.value.t = "obj" /\ ~HasKey(parsed.value, RawKey)
  THEN <<parsed.value>>
  ELSE <<>>

extractLiteLLMCandidates(line) ==
  LineCandidate(parseLineLiteLLM(line)) \o PartCandidates(SplitParts(line), 1)

\* the body of the for loop over the lines before the candidates are
\* collected: the candidates of a line, none for a line that is skipped
LineCandidates(line) ==
  IF trim(line) = <<>> \/ trim(line) = RawChunkMarker THEN <<>>
  ELSE extractLiteLLMCandidates(line)

ModelLabel == <<"m","o","d","e","l",":"," ">>
PromptLabel == <<"p","r","o","m","p","t",".">>
LabelEnd == <<":"," ">>
SequenceLabel ==
  <<"p","r","o","m","p","t",".","s","e","q","u","e","n","c","e",":"," ">>
SequenceSeparator == <<" ","|"," ">>
RawLabel == <<"p","r","o","m","p","t",".","r","a","w",":"," ">>
ReasoningLabel ==
  <<"r","e","s","p","o","n","s","e",".","r","e","a","s","o","n","i","n","g",
    ":"," ">>
ContentLabel ==
  <<"r","e","s","p","o","n","s","e",".","c","o","n","t","e","n","t",":"," ">>
TextLabel == <<"r","e","s","p","o","n","s","e",".","t","e","x","t",":"," ">>

\* if (state.model) output.push(`model: ${state.model}`)
OutputModel(st) == IF st.model # <<>> THEN <<ModelLabel \o st.model>> ELSE <<>>

\* one pass of the for loop over state.promptByRole
OutputRole(entry) ==
  IF trim(entry.content) # <<>>
  THEN <<PromptLabel \o entry.role \o LabelEnd \o trim(entry.content)>>
  ELSE <<>>

OutputRoles(byRole) == Join([i \in 1..Len(byRole) |-> OutputRole(byRole[i])], <<>>)

\* `${message.role}: ${message.content}`
SequenceItem(message) == message.role \o LabelEnd \o message.content

\* the prompt.sequence line, if state.promptMessages is not empty
OutputSequence(messages) ==
  IF messages # <<>>
  THEN <<SequenceLabel
         \o Join([i \in 1..Len(messages) |-> SequenceItem(messages[i])],
                 SequenceSeparator)>>
  ELSE <<>>

\* the for loop over state.promptExtras
OutputExtras(extras) == [i \in 1..Len(extras) |-> RawLabel \o extras[i]]

\* if (text.trim()) output.push(label + text.trim())
OutputResponse(label, text) ==
  IF trim(text) # <<>> THEN <<label \o trim(text)>> ELSE <<>>

\* Mutant of OutputLines: the response content comes before the reasoning.
OutputLinesContentFirst(st) ==
  OutputModel(st) \o OutputRoles(st.promptByRole)
  \o OutputSequence(st.promptMessages) \o OutputExtras(st.promptExtras)
  \o OutputResponse(ContentLabel, st.responseContent)
  \o OutputResponse(ReasoningLabel, st.responseReasoning)
  \o OutputResponse(TextLabel, st.responseText)

\* the array `output` of normalizeLiteLLMText (lines 1402-1432)
OutputLines(st) ==
  OutputModel(st) \o OutputRoles(st.promptByRole)
  \o OutputSequence(st.promptMessages) \o OutputExtras(st.promptExtras)
  \o OutputResponse(ReasoningLabel, st.responseReasoning)
  \o OutputResponse(ContentLabel, st.responseContent)
  \o OutputResponse(TextLabel, st.responseText)

\* { text: output.join("\n"), lineCount: output.length }
Normalized(output) ==
  [done |-> TRUE, output |-> output, text |-> Join(output, <<"\n">>),
   lineCount |-> Len(output)]

NotNormalized == [done |-> FALSE, output |-> <<>>, text |-> <<>>, lineCount |-> 0]

----------------------------------------------------------------------------
(* Bounded inputs *)

MaxFragLen == 3

BoundedStrings(alphabet, n) == UNION {[1..k -> alphabet] : k \in 0..n}

MergeAlphabet == {"a", "b", " "}

Fragments == BoundedStrings(MergeAlphabet, MaxFragLen)

\* The fragment stream of the overlap-splice scenario.
ScenarioFragments ==
  << <<"H","e","l","l","o"," ","w","o","r">>,
     <<"w","o","r","l","d",","," ","h","o","w">>,
     <<"h","o","w"," ","a","r","e"," ","y","o","u">> >>

MaxLines == 3

MaxPasses == 2

\* Lines the deduplication is run on: blank lines, lines that differ only in
\* surrounding whitespace or terminal control sequences, a line that already
\* ends in a repeat suffix, and the scenario's line.
DedupPool ==
  { <<>>,
    <<" ">>,
    <<"a">>,
    <<"a", " ">>,
    <<"ESC", "[", "0", "m", "a">>,
    <<"b">>,
    <<"a">> \o RepeatSuffix(2),
    <<"p", "i", "n", "g">> }

LineLists == UNION {[1..k -> DedupPool] : k \in 0..MaxLines}

MaxLineLen == 4

ParseAlphabet == {"a", "1", "'", "[", "]", "=", ";", " "}

\* name='Alice', age=30
NameAgeLine ==
  <<"n","a","m","e","=","'","A","l","i","c","e","'",","," ","a","g","e","=",
    "3","0">>

\* curl -X POST https://api.test/x -H 'Content-Type: application/json' -d '{"a":1}'
CurlLine ==
  <<"c","u","r","l"," ","-","X"," ","P","O","S","T"," ","h","t","t","p","s",
    ":","/","/","a","p","i",".","t","e","s","t","/","x"," ","-","H"," ","'",
    "C","o","n","t","e","n","t","-","T","y","p","e",":"," ","a","p","p","l",
    "i","c","a","t","i","o","n","/","j","s","o","n","'"," ","-","d"," ","'",
    "{","\"","a","\"",":","1","}","'">>

\* Point(1, 2, label='origin')
PointLine ==
  <<"P","o","i","n","t","(","1",","," ","2",","," ","l","a","b","e","l","=",
    "'","o","r","i","g","i","n","'",")">>

\* name='Alice'; age=30
NameAgeSemicolonLine ==
  <<"n","a","m","e","=","'","A","l","i","c","e","'",";"," ","a","g","e","=",
    "3","0">>

ScenarioLines == {NameAgeLine, NameAgeSemicolonLine, CurlLine, PointLine}

MaxCurlPieces == 3

\* What follows the command name in the generated curl lines: a method flag,
\* a URL, a header, a body that decodes, a body that does not, white space
\* and a letter.
CurlPieces ==
  { <<" ","-","X"," ","G","E","T">>,
    <<" ","h","t","t","p",":","/","/","h">>,
    <<" ","-","H"," ","'","a",":"," ","b","'">>,
    <<" ","-","d"," ","'","[","1","]","'">>,
    <<" ","-","d"," ","'","{","'">>,
    <<" ">>,
    <<"x">> }

CurlLines ==
  { <<"c","u","r","l">> \o Join(pieces, <<>>) :
      pieces \in UNION {[1..k -> CurlPieces] : k \in 0..MaxCurlPieces} }

MaxArgs == 3

\* The arguments of the generated constructor calls: the source text of the
\* argument, whether it is written `name=value`, and the decoded value.
CallArguments ==
  { [text |-> <<"1">>, named |-> FALSE, key |-> <<>>, value |-> NumV(1, 0)],
    [text |-> <<"b">>, named |-> FALSE, key |-> <<>>, value |-> StrV(<<"b">>)],
    [text |-> <<"k","=","2">>, named |-> TRUE, key |-> <<"k">>, value |-> NumV(2, 0)],
    [text |-> <<"j","=","'","a","'">>, named |-> TRUE, key |-> <<"j">>,
     value |-> StrV(<<"a">>)],
    [text |-> <<"k","=","b">>, named |-> TRUE, key |-> <<"k">>, value |-> StrV(<<"b">>)] }

CallArgumentLists == UNION {[1..k -> CallArguments] : k \in 0..MaxArgs}

\* P(arg, arg, ...)
RenderCall(args) ==
  <<"P", "(">> \o Join([i \in 1..Len(args) |-> args[i].text], <<",", " ">>) \o <<")">>

CallLines == {RenderCall(args) : args \in CallArgumentLists}

\* Arguments whose field name is one the record itself uses: __type__ and
\* __args__, next to a positional number and an ordinary named field.
ReservedArguments ==
  { [text |-> <<"1">>, named |-> FALSE, key |-> <<>>, value |-> NumV(1, 0)],
    [text |-> <<"k","=","2">>, named |-> TRUE, key |-> <<"k">>, value |-> NumV(2, 0)],
    [text |-> <<"_","_","t","y","p","e","_","_","=","5">>, named |-> TRUE,
     key |-> <<"_","_","t","y","p","e","_","_">>, value |-> NumV(5, 0)],
    [text |-> <<"_","_","a","r","g","s","_","_","=","7">>, named |-> TRUE,
     key |-> <<"_","_","a","r","g","s","_","_">>, value |-> NumV(7, 0)] }

ReservedArgumentLists == UNION {[1..k -> ReservedArguments] : k \in 0..MaxArgs}

ReservedCallLines == {RenderCall(args) : args \in ReservedArgumentLists}

\* Lines with control characters: a bare word followed by a form feed, a bare
\* word inside a colour sequence, a quoted string after a form feed.
ControlLines ==
  { <<"a", "FF">>,
    <<"ESC", "[", "0", "m", "a", "ESC", "[", "m">>,
    <<"FF", "'", "a", "'">> }

ParseLines ==
  ScenarioLines \cup CurlLines \cup CallLines \cup ReservedCallLines
  \cup ControlLines
  \cup BoundedStrings(ParseAlphabet, MaxLineLen)


MaxReconLines == 2

\* {'model': 'm1'}
ModelLine ==
  <<"{","'","m","o","d","e","l","'",":"," ","'","m","1","'","}">>

\* {'model': '', 'x': {'model': 'm2'}}
EmptyModelLine ==
  <<"{","'","m","o","d","e","l","'",":"," ","'","'",","," ","'","x","'",":",
    " ","{","'","m","o","d","e","l","'",":"," ","'","m","2","'","}","}">>

\* {'model': 5, 'text': 'ab'}
NumberModelLine ==
  <<"{","'","m","o","d","e","l","'",":"," ","5",","," ","'","t","e","x","t",
    "'",":"," ","'","a","b","'","}">>

\* {'messages': [{'role': 'u', 'content': 'hi'}, {'role': 'u', 'content': 'yo'}, {'role': 'a', 'content': 'ok'}]}
MessagesLine ==
  <<"{","'","m","e","s","s","a","g","e","s","'",":"," ","[","{","'","r","o",
    "l","e","'",":"," ","'","u","'",","," ","'","c","o","n","t","e","n","t",
    "'",":"," ","'","h","i","'","}",","," ","{","'","r","o","l","e","'",":",
    " ","'","u","'",","," ","'","c","o","n","t","e","n","t","'",":"," ","'",
    "y","o","'","}",","," ","{","'","r","o","l","e","'",":"," ","'","a","'",
    ","," ","'","c","o","n","t","e","n","t","'",":"," ","'","o","k","'","}",
    "]","}">>

\* {'messages': [{'content': [{'text': 'ok'}]}]}
RolelessMessageLine ==
  <<"{","'","m","e","s","s","a","g","e","s","'",":"," ","[","{","'","c","o",
    "n","t","e","n","t","'",":"," ","[","{","'","t","e","x","t","'",":"," ",
    "'","o","k","'","}","]","}","]","}">>

\* {'messages': [{'role': 'a', 'content': 'ok', 'model': 'm4'}]}
MessageModelLine ==
  <<"{","'","m","e","s","s","a","g","e","s","'",":"," ","[","{","'","r","o",
    "l","e","'",":"," ","'","a","'",","," ","'","c","o","n","t","e","n","t",
    "'",":"," ","'","o","k","'",","," ","'","m","o","d","e","l","'",":"," ",
    "'","m","4","'","}","]","}">>

\* {'prompt': 'p1', 'input': 'p1', 'user_prompt': 'p2'}
PromptsLine ==
  <<"{","'","p","r","o","m","p","t","'",":"," ","'","p","1","'",","," ","'",
    "i","n","p","u","t","'",":"," ","'","p","1","'",","," ","'","u","s","e",
    "r","_","p","r","o","m","p","t","'",":"," ","'","p","2","'","}">>

\* {'content': 'ab', 'reasoning': 'r1'}
ResponseLine ==
  <<"{","'","c","o","n","t","e","n","t","'",":"," ","'","a","b","'",","," ",
    "'","r","e","a","s","o","n","i","n","g","'",":"," ","'","r","1","'","}">>

\* {'a': [{'content': 'bc'}]}
NestedResponseLine ==
  <<"{","'","a","'",":"," ","[","{","'","c","o","n","t","e","n","t","'",":",
    " ","'","b","c","'","}","]","}">>

\* {'prompt': {'content': 'zz'}}
NestedPromptLine ==
  <<"{","'","p","r","o","m","p","t","'",":"," ","{","'","c","o","n","t","e",
    "n","t","'",":"," ","'","z","z","'","}","}">>

\* messages: [{'role': 'u', 'content': 'hi'}]
MessagesColonLine ==
  <<"m","e","s","s","a","g","e","s",":"," ","[","{","'","r","o","l","e","'",
    ":"," ","'","u","'",","," ","'","c","o","n","t","e","n","t","'",":"," ",
    "'","h","i","'","}","]">>

\* messages=[{'role': 'u', 'content': 'hi'}]
MessagesEqualsLine ==
  <<"m","e","s","s","a","g","e","s","=","[","{","'","r","o","l","e","'",":",
    " ","'","u","'",","," ","'","c","o","n","t","e","n","t","'",":"," ","'",
    "h","i","'","}","]">>

\* model=m3; text='cd'
KeyValueLine ==
  <<"m","o","d","e","l","=","m","3",";"," ","t","e","x","t","=","'","c","d",
    "'">>

\*   
BlankLine ==
  <<" "," ">>
\* {'model': 'm1', 'messages': [{'role': 'u', 'content': 'hi'}]
\*  , 'prompt': 'p1', 'reasoning': 'r1', 'content': 'ab', 'text': 'cd'}
FullLine ==
  <<"{","'","m","o","d","e","l","'",":"," ","'","m","1","'",","," ","'","m",
    "e","s","s","a","g","e","s","'",":"," ","[","{","'","r","o","l","e","'",
    ":"," ","'","u","'",","," ","'","c","o","n","t","e","n","t","'",":"," ",
    "'","h","i","'","}","]",","," ","'","p","r","o","m","p","t","'",":"," ",
    "'","p","1","'",","," ","'","r","e","a","s","o","n","i","n","g","'",":",
    " ","'","r","1","'",","," ","'","c","o","n","t","e","n","t","'",":"," ",
    "'","a","b","'",","," ","'","t","e","x","t","'",":"," ","'","c","d","'",
    "}">>

\* The lines the reconciler is run on: records with a model field (a name, the
\* empty string, a number, one inside another field's value, one inside a
\* message), message lists (a repeated role, no role, content parts), prompt
\* fields (a repeated text, a record), response fields (top-level and nested),
\* the shapes `messages: [...]` and `messages=[...]`, a `key=value; ...` line,
\* a record with every kind of field, and the lines the loop skips.
ReconPool ==
  { ModelLine, EmptyModelLine, NumberModelLine, MessagesLine,
    RolelessMessageLine, MessageModelLine, PromptsLine, ResponseLine,
    NestedResponseLine, NestedPromptLine, MessagesColonLine,
    MessagesEqualsLine, KeyValueLine, FullLine, BlankLine, RawChunkMarker }

\* text.split(/\r?\n/) of the texts read: up to MaxReconLines lines
ReconTexts == UNION {[1..k -> ReconPool] : k \in 0..MaxReconLines}


MaxRawLines == 3

\* Raw lines the joiner is run on: plain lines with and without surrounding
\* blanks, lines ending in a backslash (bare, indented, followed by blanks, a
\* lone backslash, two backslashes) and the empty line.
RawPool ==
  { <<"a">>,
    <<" ", "b", " ">>,
    <<>>,
    <<"c", "\\">>,
    <<" ", "d", " ", "\\">>,
    <<"e", "\\", " ">>,
    <<"\\">>,
    <<"f", "\\", "\\">> }

RawLineLists == UNION {[1..k -> RawPool] : k \in 0..MaxRawLines}


MaxTokenInput == 3

TokenAlphabet == {"a", "1", "'", "\\", " ", "-"}

\* Inputs of the tokenizer beyond the short strings: strings that are never
\* closed (plain, with an escaped quote, with a \uXXXX escape, ending in a
\* backslash), a closed string with text after it, numbers with fraction and
\* exponent, a lone minus sign, and every kind of whitespace the loop skips.
TokenScenarios ==
  { <<"'", "a", "b", " ", "c">>,
    <<"\"", "a", "\\", "\"", "b">>,
    <<"\"", "\\", "u", "0", "0", "4", "1", "x">>,
    <<"\"", "\\", "u", "0", "0", "4">>,
    <<"'", "a", "\\">>,
    <<"'", "a", "'", " ", "b", "'">>,
    <<"-", "1", ".", "5", "e", "+", "3", ",", "x", "_", "1">>,
    <<"-", " ", "1", ".", "e">>,
    <<"a", "\t", "b", "\n", "c", "\r", " ", "d">>,
    <<"[", "a", ":", " ", "1", "]", " ">> }

TokenInputs == TokenScenarios \cup BoundedStrings(TokenAlphabet, MaxTokenInput)


MaxMerges == 3

MaxSequenceFragLen == 2

\* The fragments merged one after another into an empty accumulator: every
\* string of up to MaxSequenceFragLen letters (the empty one, repeated and
\* overlapping ones among them) and fragments that are or carry a blank.
SequenceFragments ==
  BoundedStrings({"a", "b"}, MaxSequenceFragLen)
  \cup {<<" ">>, <<"a", " ">>, <<" ", "b">>}

----------------------------------------------------------------------------
(* Specification of the merge: an accumulator and the chunks merged into it *)

MergeIdle ==
  /\ mAcc = <<>> /\ mPrev = <<>> /\ mChunk = <<>> /\ mCount = 0 /\ mFeed = "idle"

DedupIdle ==
  /\ dLines = <<>> /\ dOut = <<>> /\ dPrev = <<>> /\ dPasses = 0

ParseIdle ==
  /\ pLine = <<>> /\ pResult = [t |-> "none"] /\ pRaised = FALSE /\ pBy = "none"

ReconIdle ==
  /\ rLines = <<>> /\ rLineNo = 0 /\ rPending = <<>> /\ rCands = <<>>
  /\ rState = InitialState /\ rOut = NotNormalized /\ rBy = "idle"

JoinIdle ==
  /\ jLines = <<>> /\ jOut = <<>> /\ jDone = FALSE

TokenIdle ==
  /\ tInput = <<>> /\ tIndex = 0 /\ tTokens = <<>> /\ tBy = "none"

SequenceIdle ==
  /\ sAcc = <<>> /\ sFrags = <<>>

MergeInit ==
  /\ mPrev = <<>> /\ mChunk = <<>> /\ mCount = 0
  /\ \/ mFeed = "free" /\ mAcc \in Fragments
     \/ mFeed = "scenario" /\ mAcc = <<>>
  /\ DedupIdle /\ ParseIdle /\ ReconIdle /\ JoinIdle /\ TokenIdle /\ SequenceIdle

Merge(chunk) == \* state.x = mergeChunk(state.x, chunk)
  /\ mPrev' = mAcc
  /\ mChunk' = chunk
  /\ mAcc' = mergeChunk(mAcc, chunk)
  /\ mCount' = mCount + 1
  /\ UNCHANGED <<mFeed, dvars, pvars, rvars, jvars, tvars, svars>>

MergeFree ==
  /\ mFeed = "free" /\ mCount = 0
  /\ \E chunk \in Fragments : Merge(chunk)

MergeScenario ==
  /\ mFeed = "scenario" /\ mCount < Len(ScenarioFragments)
  /\ Merge(ScenarioFragments[mCount + 1])

MergeNext == MergeFree \/ MergeScenario

SpecMerge == MergeInit /\ [][MergeNext]_vars

----------------------------------------------------------------------------
(* Specification of the deduplication: renderReport's deduplicateLines pass, *)
(* applied again to its own output *)

DedupInit ==
  /\ dLines \in LineLists
  /\ dOut = dLines /\ dPrev = dLines /\ dPasses = 0
  /\ MergeIdle /\ ParseIdle /\ ReconIdle /\ JoinIdle /\ TokenIdle /\ SequenceIdle

DedupPass ==
  /\ dPasses < MaxPasses
  /\ dPrev' = dOut
  /\ dOut' = deduplicateLines(dOut)
  /\ dPasses' = dPasses + 1
  /\ UNCHANGED <<dLines, mvars, pvars, rvars, jvars, tvars, svars>>

DedupNext == DedupPass

SpecDedup == DedupInit /\ [][DedupNext]_vars

----------------------------------------------------------------------------
(* Specification of the classifier: renderLine's call of parseLine on one   *)
(* line, by the viewer's parseLine or by the reconciler revision's          *)

ParseInit ==
  /\ pLine \in ParseLines
  /\ pResult = [t |-> "none"] /\ pRaised = FALSE /\ pBy = "none"
  /\ MergeIdle /\ DedupIdle /\ ReconIdle /\ JoinIdle /\ TokenIdle /\ SequenceIdle

Classify(by, res) ==
  /\ pBy = "none"
  /\ pBy' = by
  /\ pRaised' = res.raised
  /\ pResult' = res.value
  /\ UNCHANGED <<pLine, mvars, dvars, rvars, jvars, tvars, svars>>

ClassifyViewer == Classify(Viewer, parseLine(pLine))

ClassifyLiteLLM == Classify(LiteLLM, parseLineLiteLLM(pLine))

ParseNext == ClassifyViewer \/ ClassifyLiteLLM

SpecParse == ParseInit /\ [][ParseNext]_vars

----------------------------------------------------------------------------
(* Specification of the reconciler: normalizeLiteLLMText on the lines of a   *)
(* text.  NextLine is the head of one pass of the loop over the lines,       *)
(* Collect one call collectLiteLLMData(candidate, state) of its inner loop,  *)
(* Assemble the code after the loop.                                         *)

ReconInit ==
  /\ rLines \in ReconTexts
  /\ rLineNo = 0 /\ rPending = <<>> /\ rCands = <<>>
  /\ rState = InitialState /\ rOut = NotNormalized /\ rBy = "reconcile"
  /\ MergeIdle /\ DedupIdle /\ ParseIdle /\ JoinIdle /\ TokenIdle /\ SequenceIdle

NextLine ==
  /\ rBy = "reconcile" /\ rPending = <<>> /\ rLineNo < Len(rLines)
  /\ rLineNo' = rLineNo + 1
  /\ rPending' = LineCandidates(rLines[rLineNo + 1])
  /\ UNCHANGED <<rLines, rCands, rState, rOut, rBy, mvars, dvars, pvars, jvars, tvars, svars>>

Collect ==
  /\ rPending # <<>>
  /\ rState' = collectLiteLLMData(Head(rPending), rState)
  /\ rCands' = Append(rCands, Head(rPending))
  /\ rPending' = Tail(rPending)
  /\ UNCHANGED <<rLines, rLineNo, rOut, rBy, mvars, dvars, pvars, jvars, tvars, svars>>

Assemble ==
  /\ rBy = "reconcile" /\ rPending = <<>> /\ rLineNo = Len(rLines) /\ ~rOut.done
  /\ rOut' = Normalized(OutputLines(rState))
  /\ UNCHANGED <<rLines, rLineNo, rPending, rCands, rState, rBy, mvars, dvars, pvars, jvars, tvars, svars>>

ReconNext == NextLine \/ Collect \/ Assemble

SpecReconcile == ReconInit /\ [][ReconNext]_vars

----------------------------------------------------------------------------
(* Specification of the joiner: preprocessLines on one list of raw lines *)

JoinInit ==
  /\ jLines \in RawLineLists
  /\ jOut = <<>> /\ jDone = FALSE
  /\ MergeIdle /\ DedupIdle /\ ParseIdle /\ ReconIdle /\ TokenIdle /\ SequenceIdle

Preprocess ==
  /\ ~jDone
  /\ jOut' = preprocessLines(jLines)
  /\ jDone' = TRUE
  /\ UNCHANGED <<jLines, mvars, dvars, pvars, rvars, tvars, svars>>

JoinNext == Preprocess

SpecJoin == JoinInit /\ [][JoinNext]_vars

----------------------------------------------------------------------------
(* Specification of the tokenizer: tokenize, one pass of its outer while    *)
(* loop per step.  The loop ends when the index reaches the input's length. *)

TokenInit ==
  /\ tInput \in TokenInputs
  /\ tIndex = 0 /\ tTokens = <<>> /\ tBy \in {Viewer, LiteLLM}
  /\ MergeIdle /\ DedupIdle /\ ParseIdle /\ ReconIdle /\ JoinIdle /\ SequenceIdle

\* a pass at a whitespace character: index += 1; continue
SkipWhitespace ==
  /\ tBy # "none" /\ tIndex < Len(tInput)
  /\ IsTokenSpace(tInput[tIndex + 1])
  /\ tIndex' = tIndex + 1
  /\ UNCHANGED <<tInput, tTokens, tBy, mvars, dvars, pvars, rvars, jvars, svars>>

\* a pass at any other character: one token is pushed
PushToken ==
  /\ tBy # "none" /\ tIndex < Len(tInput)
  /\ ~IsTokenSpace(tInput[tIndex + 1])
  /\ tTokens' = Append(tTokens, NextToken(tInput, tIndex, tBy).pushed)
  /\ tIndex' = NextToken(tInput, tIndex, tBy).index
  /\ UNCHANGED <<tInput, tBy, mvars, dvars, pvars, rvars, jvars, svars>>

TokenNext == SkipWhitespace \/ PushToken

SpecTokenize == TokenInit /\ [][TokenNext]_vars

\* the while loop runs as long as its condition holds
SpecTokenizeFair == SpecTokenize /\ WF_vars(TokenNext)

----------------------------------------------------------------------------
(* Specification of a merge sequence: the statements                        *)
(* state.x = mergeChunk(state.x, fragment) of collectLiteLLMData, applied    *)
(* one after another to a channel that starts empty.                         *)

SequenceInit ==
  /\ sAcc = <<>> /\ sFrags = <<>>
  /\ MergeIdle /\ DedupIdle /\ ParseIdle /\ ReconIdle /\ JoinIdle /\ TokenIdle

MergeFragment ==
  /\ Len(sFrags) < MaxMerges
  /\ \E fragment \in SequenceFragments :
       /\ sAcc' = mergeChunk(sAcc, fragment)
       /\ sFrags' = Append(sFrags, fragment)
  /\ UNCHANGED <<mvars, dvars, pvars, rvars, jvars, tvars>>

SequenceNext == MergeFragment

SpecMergeSequence == SequenceInit /\ [][SequenceNext]_vars

----------------------------------------------------------------------------
(* Claims about mergeChunk, checked under SpecMerge.  After a merge, mPrev  *)
(* is A, mChunk is B and mAcc is mergeChunk(A, B).                          *)

\* p occurs in s as a contiguous block
Contains(s, p) ==
  \E i \in 1..(Len(s) + 1) : \E j \in (i - 1)..Len(s) : SubSeq(s, i, j) = p

\* the sizes k >= 1 at which the last k characters of a are the first k of b
OverlapSizes(a, b) ==
  {k \in 1..Min(Len(a), Len(b)) :
     \A i \in 1..k : a[Len(a) - k + i] = b[i]}

MaxOf(S) == CHOOSE k \in S : \A j \in S : j <= k

Disjoint(a, b) ==
  /\ a # <<>> /\ b # <<>>
  /\ ~Contains(a, b) /\ ~Contains(b, a)
  /\ OverlapSizes(a, b) = {}

\* C3 (as stated): the result of mergeChunk(A, B) is never longer than
\* |A| + |B| characters, in every branch of the merge.
C3_MergeNeverLongerThanSum ==
  mCount > 0 => Len(mAcc) <= Len(mPrev) + Len(mChunk)

\* C3 (amended): the result of mergeChunk(A, B) is never longer than
\* |A| + |B| + 1; it is longer than |A| + |B| only in the disjoint
\* concatenation branch when the separating space is inserted (A and B
\* non-empty, neither contains the other, no suffix/prefix overlap, A does
\* not end and B does not begin with whitespace), where it is A, one space,
\* B; in the containment and overlap-splice branches it is at most |A|+|B|.
C3_MergeLengthBound ==
  mCount > 0 =>
    /\ Len(mAcc) <= Len(mPrev) + Len(mChunk) + 1
    /\ Len(mAcc) > Len(mPrev) + Len(mChunk) =>
         /\ Disjoint(mPrev, mChunk)
         /\ ~IsSpace(mPrev[Len(mPrev)])
         /\ ~IsSpace(mChunk[1])
         /\ mAcc = mPrev \o <<" ">> \o mChunk

C3_Witness ==
  /\ mCount > 0
  /\ Disjoint(mPrev, mChunk)
  /\ Len(mAcc) = Len(mPrev) + Len(mChunk) + 1

\* C5: merge is idempotent and extends prefixes: mergeChunk(A, A) = A and
\* mergeChunk(A, A+X) = A+X for every A and X (X may be empty).
C5_MergeExtendsPrefix ==
  (mCount > 0 /\ Len(mPrev) <= Len(mChunk)
     /\ SubSeq(mChunk, 1, Len(mPrev)) = mPrev)
  => mAcc = mChunk

C5_Witness ==
  /\ mCount > 0
  /\ mPrev # <<>>
  /\ Len(mPrev) < Len(mChunk)
  /\ SubSeq(mChunk, 1, Len(mPrev)) = mPrev
  /\ mAcc = mChunk

\* C6: the empty string is a two-sided identity of merge:
\* mergeChunk(A, "") = A and mergeChunk("", B) = B.
C6_MergeEmptyIdentity ==
  mCount > 0 =>
    /\ mChunk = <<>> => mAcc = mPrev
    /\ mPrev = <<>> => mAcc = mChunk

C6_Witness ==
  /\ mCount > 0
  /\ mChunk = <<>> /\ mPrev # <<>> /\ mAcc = mPrev

\* C7: overlap splice: when A is non-empty, neither of A, B contains the
\* other and some k in 1..min(|A|,|B|) has the last k characters of A equal
\* to the first k of B, mergeChunk(A, B) is A followed by B without its first
\* kmax characters, kmax the largest such k; and merging "Hello wor",
\* "world, how", "how are you" into an empty accumulator yields
\* "Hello world, how are you".
C7_OverlapSplice ==
  /\ (mCount > 0 /\ mPrev # <<>>
        /\ ~Contains(mPrev, mChunk) /\ ~Contains(mChunk, mPrev)
        /\ OverlapSizes(mPrev, mChunk) # {})
     => mAcc = mPrev \o SubSeq(mChunk, MaxOf(OverlapSizes(mPrev, mChunk)) + 1,
                               Len(mChunk))
  /\ (mFeed = "scenario" /\ mCount = Len(ScenarioFragments))
     => mAcc = <<"H","e","l","l","o"," ","w","o","r","l","d",","," ",
                 "h","o","w"," ","a","r","e"," ","y","o","u">>

\* two different overlap sizes exist, so largest and smallest differ
C7_Witness ==
  /\ mCount > 0 /\ mPrev # <<>>
  /\ ~Contains(mPrev, mChunk) /\ ~Contains(mChunk, mPrev)
  /\ Cardinality(OverlapSizes(mPrev, mChunk)) > 1


\* Claim about merge sequences, checked under SpecMergeSequence.  sFrags are
\* the fragments merged so far and sAcc the accumulator they left.

\* C21: no fragment is lost by merging.  mergeChunk(A, B) contains both A and
\* B as substrings, so after any sequence of merges of fragments f1..fn into
\* an initially empty accumulator the accumulator contains every fi.
C21_NoFragmentLost ==
  /\ [](\A i \in 1..Len(sFrags) : Contains(sAcc, sFrags[i]))
  /\ [][/\ Contains(sAcc', sAcc)
        /\ Contains(sAcc', sFrags'[Len(sFrags')])]_vars

\* three fragments merged, none contained in another: the accumulator was
\* extended by an overlap splice and by a concatenation
C21_Witness ==
  /\ Len(sFrags) = 3
  /\ sFrags[1] = <<"a", "b">> /\ sFrags[2] = <<"b", "a">> /\ sFrags[3] = <<"b", "b">>
  /\ sAcc = <<"a", "b", "a", " ", "b", "b">>

----------------------------------------------------------------------------
(* Claims about deduplicateLines, checked under SpecDedup.  After a pass,   *)
(* dPrev is the list handed to deduplicateLines and dOut its result.        *)

\* C2: run-length deduplication is idempotent: for any list of lines,
\* deduplicateLines(deduplicateLines(lines)) = deduplicateLines(lines).
C2_DedupIdempotent ==
  dPasses = 2 => dOut = dPrev

\* The repeat-count suffix as the claim spells it: " (", U+00D7, n, ")".
ClaimedSuffix(n) == <<" ", "(", "U+00D7">> \o IntToStr(n) \o <<")">>

\* length of the maximal run of equal normalized forms starting at line i
RunLength(lines, i) ==
  CHOOSE n \in 1..(Len(lines) - i + 1) :
    /\ \A k \in 0..(n - 1) : normalizedLine(lines[i + k]) = normalizedLine(lines[i])
    /\ (i + n <= Len(lines) => normalizedLine(lines[i + n]) # normalizedLine(lines[i]))

RECURSIVE ClaimedFrom(_, _)
ClaimedFrom(lines, i) ==
  IF i > Len(lines) THEN <<>>
  ELSE IF RunLength(lines, i) >= 2 /\ normalizedLine(lines[i]) # <<>>
       THEN <<lines[i] \o ClaimedSuffix(RunLength(lines, i))>>
            \o ClaimedFrom(lines, i + RunLength(lines, i))
       ELSE <<lines[i]>> \o ClaimedFrom(lines, i + 1)

\* C8: deduplicateLines collapses every maximal run of n >= 2 consecutive
\* lines whose control-stripped, trimmed forms are equal and non-empty into
\* one entry, the run's first original line followed by " (xn)" with the
\* multiplication sign U+00D7; a line that is not part of such a run passes
\* through unchanged; a run of lines whose normalized form is empty is never
\* annotated.  Three "ping" lines give "ping (x3)", a lone "ping" stays.
C8_DedupCollapsesRuns ==
  dPasses = 1 => dOut = ClaimedFrom(dPrev, 1)

----------------------------------------------------------------------------
(* Claims about parseLine, checked under SpecParse.  After a classification *)
(* pLine is the line, pBy the parseLine that ran, pResult what it returned  *)
(* and pRaised whether an exception left it.                                *)

\* the line as parseLine of the viewer sees it: control-stripped and trimmed
TrimmedLine == trim(stripAnsiAndControl(pLine))

\* C1: parseLine is total: for every input string, the empty string,
\* all-whitespace strings and strings with unbalanced quotes or brackets
\* included, it returns a value without raising; a tokenizer or parser failure
\* inside it is absorbed and the next strategy or the raw wrapping takes over.
C1_ParseLineTotal ==
  pBy # "none" =>
    /\ ~pRaised
    /\ pResult.t \in {"null", "bool", "num", "str", "arr", "obj"}

\* the whole-line parse failed inside tryParseValue, and a value came back
C1_Witness ==
  /\ pBy = Viewer /\ ~pRaised /\ pResult.t # "none"
  /\ TrimmedLine # <<>>
  /\ sanitizeToJson(TrimmedLine, Viewer).threw

NameKey == <<"n", "a", "m", "e">>
AgeKey == <<"a", "g", "e">>

\* the mapping {name: "Alice", age: 30}
NameAgeMapping ==
  ObjV(<<NameKey, AgeKey>>, <<StrV(<<"A","l","i","c","e">>), NumV(30, 0)>>)

\* C4 (as stated): the line name='Alice', age=30 classifies to a mapping with
\* exactly the two entries name -> "Alice" and age -> 30.
C4_NameAgeTwoEntries ==
  (pBy # "none" /\ pLine = NameAgeLine) => pResult = NameAgeMapping

\* C4 (amended): the line name='Alice', age=30 classifies to a mapping with the
\* single entry name -> "'Alice', age=30", the comma separating nothing; it is
\* the line name='Alice'; age=30, its segments separated by ";", that
\* classifies to exactly the two entries name -> "Alice" and age -> 30.
C4_NameAgeSegments ==
  /\ (pBy # "none" /\ pLine = NameAgeLine)
     => pResult = ObjV(<<NameKey>>, <<StrV(SubSeq(NameAgeLine, 6, Len(NameAgeLine)))>>)
  /\ (pBy # "none" /\ pLine = NameAgeSemicolonLine) => pResult = NameAgeMapping

C4_Witness ==
  /\ pBy = Viewer /\ pLine = NameAgeLine
  /\ pResult.t = "obj" /\ pResult.keys = <<NameKey>>

\* s begins with the command name followed by whitespace
BeginsWithCurl(s) ==
  Len(s) >= 5 /\ SubSeq(s, 1, 4) = <<"c","u","r","l">> /\ IsSpace(s[5])

\* C9: the line curl -X POST https://api.test/x -H 'Content-Type:
\* application/json' -d '{"a":1}' classifies to a record of type curl with
\* method "POST", url "https://api.test/x", headers {Content-Type:
\* "application/json"} and body the mapping {a: 1}; and for every line that,
\* as the extractor receives it, begins with curl followed by whitespace, the
\* extractor's record of type curl is the result, no later strategy running.
C9_CurlRecord ==
  /\ (pBy = Viewer /\ pLine = CurlLine)
     => pResult =
          ObjV(<<TypeKey, MethodKey, UrlKey, HeadersKey, BodyKey>>,
               <<StrV(<<"c","u","r","l">>),
                 StrV(<<"P","O","S","T">>),
                 StrV(SubSeq(CurlLine, 14, 31)),
                 ObjV(<<SubSeq(CurlLine, 37, 48)>>, <<StrV(SubSeq(CurlLine, 51, 66))>>),
                 ObjV(<<<<"a">>>>, <<NumV(1, 0)>>)>>)
  /\ (pBy = Viewer /\ BeginsWithCurl(TrimmedLine))
     => /\ pResult.t = "obj"
        /\ pResult.keys[1] = TypeKey
        /\ pResult.vals[1] = StrV(<<"c","u","r","l">>)
        /\ pResult = parseCurlCommand(TrimmedLine).value

C9_Witness ==
  /\ pBy = Viewer /\ BeginsWithCurl(TrimmedLine)
  /\ pResult.t = "obj"
  /\ HasKey(pResult, HeadersKey) /\ HasKey(pResult, BodyKey)

\* the named fields of args[i..], in source order, set on the record
RECURSIVE WithNamedFields(_, _, _)
WithNamedFields(record, args, i) ==
  IF i > Len(args) THEN record
  ELSE WithNamedFields(IF args[i].named THEN SetKey(record, args[i].key, args[i].value)
                       ELSE record,
                       args, i + 1)

IsPositional(arg) == ~arg.named

\* the values of the arguments not written name=value, in source order
PositionalValues(args) ==
  [i \in 1..Len(SelectSeq(args, IsPositional)) |-> SelectSeq(args, IsPositional)[i].value]

\* The record the claim gives the call P(args): the type name, the named
\* fields, and the positional values when there are any.
CallRecord(args) ==
  IF PositionalValues(args) = <<>>
  THEN WithNamedFields(ObjV(<<TypeKey>>, <<StrV(<<"P">>)>>), args, 1)
  ELSE SetKey(WithNamedFields(ObjV(<<TypeKey>>, <<StrV(<<"P">>)>>), args, 1),
              ArgsKey, ArrV(PositionalValues(args)))

CallCases ==
  {[line |-> RenderCall(args), record |-> CallRecord(args)] : args \in CallArgumentLists}

LabelKey == <<"l", "a", "b", "e", "l">>

\* C10: the line Point(1, 2, label='origin') classifies to a record with type
\* name Point, positional values [1, 2] in source order and the single named
\* field label -> "origin"; inside a constructor call an argument is a named
\* field exactly when it begins with an identifier followed by "=", otherwise
\* its value is appended to the positional list.
C10_ClassCall ==
  /\ (pBy # "none" /\ pLine = PointLine)
     => pResult =
          ObjV(<<TypeKey, LabelKey, ArgsKey>>,
               <<StrV(<<"P","o","i","n","t">>),
                 StrV(<<"o","r","i","g","i","n">>),
                 ArrV(<<NumV(1, 0), NumV(2, 0)>>)>>)
  /\ pBy # "none" => \A case \in CallCases : pLine = case.line => pResult = case.record

\* a call with a bare identifier as positional argument and a named field
C10_Witness ==
  /\ pBy = Viewer /\ pLine \in CallLines
  /\ pResult.t = "obj"
  /\ HasKey(pResult, ArgsKey) /\ HasKey(pResult, <<"k">>)
  /\ StrV(<<"b">>) \in {Get(pResult, ArgsKey).items[i] : i \in 1..Len(Get(pResult, ArgsKey).items)}

\* Claims C16, C19 and C20 about parseLine, checked under SpecParse as well.

\* the text the parseLine that ran hands to the Value Normalizer
TrimmedFor(by) == IF by = Viewer THEN TrimmedLine ELSE trim(pLine)

\* the whole-line parse of the parseLine that ran
WholeLineParse == tryParseValue(TrimmedFor(pBy), pBy)

BeginsWithQuote(text) == text # <<>> /\ text[1] \in {"'", "\""}

\* C16: whenever the Value Normalizer succeeds on the whole trimmed line with
\* a plain string and the trimmed text does not begin with a quote character,
\* parseLine returns the control-stripped original text wrapped as raw; in
\* every other successful whole-line parse it returns the parsed value.
C16_BareWordGuard ==
  (pBy # "none" /\ ~pRaised /\ WholeLineParse.ok) =>
    IF WholeLineParse.value.t = "str" /\ ~BeginsWithQuote(TrimmedFor(pBy))
    THEN pResult = RawV(stripAnsiAndControl(pLine))
    ELSE pResult = WholeLineParse.value

\* C19: parseLine returns the Empty marker, the empty string, only when the
\* line is empty after control-stripping and trimming; no line with
\* non-blank content is classified as Empty.
C19_EmptyOnlyForBlank ==
  (pBy # "none" /\ ~pRaised /\ pResult = StrV(<<>>)) => TrimmedLine = <<>>

\* the generated calls P(args) with the positional values written in them
TaggedCases ==
  {[line |-> RenderCall(args), positional |-> PositionalValues(args)] :
     args \in CallArgumentLists \cup ReservedArgumentLists}

\* the positional list of a record: its __args__, the empty list without one
PositionalList(record) ==
  IF HasKey(record, ArgsKey) THEN Get(record, ArgsKey) ELSE ArrV(<<>>)

\* C20: for every constructor call Name(args...) that parses, the record's
\* type name is Name and its positional list is exactly the positional
\* arguments in source order, whatever the named fields are called.
C20_TypeAndPositionals ==
  pBy # "none" =>
    \A case \in TaggedCases :
      (pLine = case.line /\ pResult.t = "obj") =>
        /\ HasKey(pResult, TypeKey)
        /\ Get(pResult, TypeKey) = StrV(<<"P">>)
        /\ PositionalList(pResult) = ArrV(case.positional)

----------------------------------------------------------------------------
(* Claims about tokenize, checked under SpecTokenizeFair.  tTokens are the  *)
(* tokens pushed when the read index is tIndex.                             *)

\* the pass at tIndex is at a quote after which the quote does not occur again
AtUnclosedString ==
  /\ tIndex < Len(tInput)
  /\ tInput[tIndex + 1] \in (IF tBy = Viewer THEN {"'", "\""} ELSE {"'"})
  /\ \A k \in (tIndex + 2)..Len(tInput) : tInput[k] # tInput[tIndex + 1]

\* the input after the quote at tIndex
RestAfterQuote == SubSeq(tInput, tIndex + 2, Len(tInput))

HasBackslash(text) == \E k \in 1..Len(text) : text[k] = "\\"

\* the token has no space, tab, line feed or carriage return in it
WithoutWhitespace(token) ==
  \A k \in 1..Len(token.value) : token.value[k] \notin {" ", "\t", "\n", "\r"}

\* C17: tokenize terminates on every input.  Each pass of the outer loop
\* advances the read index by at least one character, never beyond the input,
\* and the loop ends with the index at the input's length; a quoted string
\* that is never closed gives a String token holding the rest of the input,
\* not an error; no whitespace character is emitted as a token.
C17_TokenizeTerminates ==
  /\ [][tIndex' >= tIndex + 1 /\ tIndex' <= Len(tInput)]_vars
  /\ <>[](tIndex = Len(tInput))
  /\ [][AtUnclosedString =>
          /\ tIndex' = Len(tInput)
          /\ Len(tTokens') = Len(tTokens) + 1
          /\ tTokens'[Len(tTokens')].type = "string"
          /\ ~HasBackslash(RestAfterQuote)
             => tTokens'[Len(tTokens')].value = RestAfterQuote]_vars
  /\ [](\A k \in 1..Len(tTokens) :
          tTokens[k].type # "string" => tTokens[k].value # <<>> /\ WithoutWhitespace(tTokens[k]))

\* the loop has ended on an input that begins with whitespace and whose only
\* quote opens a string that is never closed: the token holds what follows it
C17_Witness ==
  /\ tIndex = Len(tInput) /\ Len(tInput) >= 3
  /\ tInput[1] = " " /\ tInput[2] = "'"
  /\ \A k \in 3..Len(tInput) : tInput[k] \notin {"'", "\\"}
  /\ tTokens = <<Token("string", SubSeq(tInput, 3, Len(tInput)))>>

----------------------------------------------------------------------------
(* Claims about preprocessLines, checked under SpecJoin.  After Preprocess,  *)
(* jLines is the input and jOut the returned list.                           *)

\* the right-trimmed text of the line ends with a backslash
IsContinued(line) ==
  \E n \in 1..Len(line) :
    /\ line[n] = "\\"
    /\ \A k \in (n + 1)..Len(line) : IsSpace(line[k])

\* the text without its last character if that is a backslash
MinusBackslash(text) ==
  IF text # <<>> /\ text[Len(text)] = "\\" THEN SubSeq(text, 1, Len(text) - 1) ELSE text

\* the input lines at which an output line ends: those not continued, and the
\* last line
GroupEnds(lines) ==
  {i \in 1..Len(lines) : ~IsContinued(lines[i]) \/ i = Len(lines)}

\* the k-th of them
NthEnd(lines, k) ==
  CHOOSE i \in GroupEnds(lines) : Cardinality({j \in GroupEnds(lines) : j <= i}) = k

GroupStart(lines, k) == IF k = 1 THEN 1 ELSE NthEnd(lines, k - 1) + 1

\* the output line of the group lines[a..b]
GroupText(lines, a, b) ==
  IF a = b /\ ~IsContinued(lines[a]) THEN lines[a]
  ELSE Join([k \in 1..(b - a + 1) |->
               IF k = 1 THEN MinusBackslash(trimEnd(lines[a]))
               ELSE MinusBackslash(trim(lines[a + k - 1]))], <<" ">>)

\* C14: every input line goes into exactly one output line, in order; an
\* output line ends at an input line whose right-trimmed text does not end
\* with a backslash, or at the end of the input; the first line of a group
\* gives its right-trimmed text minus the backslash, each later line its
\* trimmed text minus a trailing backslash, joined by single spaces; a line
\* without trailing backslash that starts a group is passed through unchanged.
C14_ContinuationJoin ==
  jDone =>
    /\ Len(jOut) = Cardinality(GroupEnds(jLines))
    /\ \A k \in 1..Len(jOut) :
         jOut[k] = GroupText(jLines, GroupStart(jLines, k), NthEnd(jLines, k))

\* three lines joined into one, the later ones with blanks around their text
C14_Witness ==
  /\ jDone /\ Len(jLines) = 3 /\ Len(jOut) = 1
  /\ jLines[2] = <<" ", "d", " ", "\\">>
  /\ jLines[3] = <<" ", "b", " ">>

----------------------------------------------------------------------------
(* Claims about the reconciler, checked under SpecReconcile.  rCands are the *)
(* candidates handed to collectLiteLLMData so far, rState the state they     *)
(* left, rOut what normalizeLiteLLMText returned.                            *)

\* the fields whose values collectLiteLLMData does not descend into
UnvisitedKeys == {MessagesKey} \cup PromptFieldKeys

RECURSIVE ModelFieldsOf(_)

\* the string model field of a record, if it has one
OwnModelField(record) ==
  IF Field(record, ModelKey).t = "str" THEN <<Field(record, ModelKey).s>> ELSE <<>>

\* the string model fields collectLiteLLMData meets below the fields of a record
ModelFieldsBelow(record) ==
  Join([i \in 1..Len(record.keys) |->
          IF record.keys[i] \in UnvisitedKeys THEN <<>>
          ELSE ModelFieldsOf(record.vals[i])], <<>>)

\* the string model fields collectLiteLLMData meets in a candidate, in the
\* order it meets them
ModelFieldsOf(value) ==
  IF value.t = "arr"
  THEN Join([i \in 1..Len(value.items) |-> ModelFieldsOf(value.items[i])], <<>>)
  ELSE IF value.t = "obj" THEN OwnModelField(value) \o ModelFieldsBelow(value)
  ELSE <<>>

\* the string model fields met in all candidates collected so far
ModelFieldsSeen == Join([i \in 1..Len(rCands) |-> ModelFieldsOf(rCands[i])], <<>>)

IsNonEmpty(text) == text # <<>>

\* the first non-empty text of a list, the empty text if it has none
FirstNonEmpty(texts) ==
  IF SelectSeq(texts, IsNonEmpty) = <<>> THEN <<>> ELSE Head(SelectSeq(texts, IsNonEmpty))

\* C11: the model identifier is write-once.  After any sequence of candidates
\* handed to collectLiteLLMData, state.model is the first non-empty string
\* `model` field met (empty while none was met), and no step changes
\* state.model once it is non-empty.
C11_ModelWriteOnce ==
  /\ [](rState.model = FirstNonEmpty(ModelFieldsSeen))
  /\ [][rState.model # <<>> => rState'.model = rState.model]_vars

\* a captured model, and a later candidate that carried a different non-empty one
C11_Witness ==
  /\ rState.model # <<>>
  /\ \E i \in 1..Len(ModelFieldsSeen) :
       ModelFieldsSeen[i] # <<>> /\ ModelFieldsSeen[i] # rState.model

HasText(entry) == trim(entry.content) # <<>>

\* the roles of the Map, in insertion order
RolesOf(byRole) == [i \in 1..Len(byRole) |-> byRole[i].role]

IsPrefix(a, b) == Len(a) <= Len(b) /\ SubSeq(b, 1, Len(a)) = a

NoDuplicates(seq) == \A i, j \in 1..Len(seq) : seq[i] = seq[j] => i = j

\* a response line: the label and the trimmed text, nothing for a blank text
ExpectedResponse(label, text) ==
  IF trim(text) = <<>> THEN <<>> ELSE <<label \o trim(text)>>

\* the output the claim describes for a state, group by group
ExpectedOutput(st) ==
  (IF st.model = <<>> THEN <<>> ELSE <<ModelLabel \o st.model>>)
  \o [i \in 1..Len(SelectSeq(st.promptByRole, HasText)) |->
        PromptLabel \o SelectSeq(st.promptByRole, HasText)[i].role \o LabelEnd
        \o trim(SelectSeq(st.promptByRole, HasText)[i].content)]
  \o (IF st.promptMessages = <<>> THEN <<>>
      ELSE <<SequenceLabel
             \o Join([i \in 1..Len(st.promptMessages) |->
                        st.promptMessages[i].role \o LabelEnd
                        \o st.promptMessages[i].content], SequenceSeparator)>>)
  \o [i \in 1..Len(st.promptExtras) |-> RawLabel \o st.promptExtras[i]]
  \o ExpectedResponse(ReasoningLabel, st.responseReasoning)
  \o ExpectedResponse(ContentLabel, st.responseContent)
  \o ExpectedResponse(TextLabel, st.responseText)

\* C12: the output lines are, in this order, the model line (if a model was
\* captured), one prompt.<role> line per role with non-blank text in the order
\* the roles were first seen, at most one prompt.sequence line, the
\* prompt.raw lines in insertion order without duplicates, then
\* response.reasoning, response.content and response.text (each if non-blank);
\* lineCount is the number of output lines.  Roles and raw texts keep the
\* position of their first insertion at every step.
C12_OutputOrder ==
  /\ [](rOut.done => /\ rOut.output = ExpectedOutput(rState)
                     /\ rOut.lineCount = Len(rOut.output)
                     /\ rOut.text = Join(rOut.output, <<"\n">>))
  /\ [](NoDuplicates(rState.promptExtras) /\ NoDuplicates(RolesOf(rState.promptByRole)))
  /\ [][/\ IsPrefix(RolesOf(rState.promptByRole), RolesOf(rState'.promptByRole))
        /\ IsPrefix(rState.promptExtras, rState'.promptExtras)]_vars

\* an output with a line of every kind: seven lines from one role, one raw text
C12_Witness ==
  /\ rOut.done /\ rOut.lineCount >= 7
  /\ rState.model # <<>> /\ Len(rState.promptByRole) >= 1
  /\ Len(rState.promptExtras) >= 1
  /\ rState.responseReasoning # <<>> /\ rState.responseContent # <<>>
  /\ rState.responseText # <<>>

RECURSIVE FieldTexts(_, _, _)

\* the trimmed text of a field named in `names`, if it is a non-blank string
OwnFieldText(key, val, names) ==
  IF key \in names /\ val.t = "str" /\ trim(val.s) # <<>> THEN {trim(val.s)} ELSE {}

\* The non-blank strings held by fields named in `names`, in the records of
\* `value` at any depth, the values of the fields in `skipped` left out.
FieldTexts(value, names, skipped) ==
  IF value.t = "arr"
  THEN UNION {FieldTexts(value.items[i], names, skipped) : i \in 1..Len(value.items)}
  ELSE IF value.t = "obj"
  THEN UNION {OwnFieldText(value.keys[i], value.vals[i], names)
              \cup (IF value.keys[i] \in skipped THEN {}
                    ELSE FieldTexts(value.vals[i], names, skipped)) :
              i \in 1..Len(value.keys)}
  ELSE {}

\* every recognized field of the candidate, outside the fields in `skipped`,
\* has reached the state: a model is captured, prompt texts are among the
\* extras, response texts are part of their channel
FieldsCollected(candidate, skipped) ==
  /\ FieldTexts(candidate, {ModelKey}, skipped) # {} => rState.model # <<>>
  /\ \A text \in FieldTexts(candidate, PromptFieldKeys, skipped) :
       \E i \in 1..Len(rState.promptExtras) : rState.promptExtras[i] = text
  /\ \A text \in FieldTexts(candidate, {ContentKey}, skipped) :
       includes(rState.responseContent, text)
  /\ \A text \in FieldTexts(candidate, {ReasoningKey, ReasoningContentKey}, skipped) :
       includes(rState.responseReasoning, text)
  /\ \A text \in FieldTexts(candidate, {TextKey}, skipped) :
       includes(rState.responseText, text)

\* C13 as stated: the collector descends into the value of every field of
\* every mapping, so a recognized field at any depth inside any field's value
\* is collected.
C13_EveryFieldRecursed ==
  \A i \in 1..Len(rCands) : FieldsCollected(rCands[i], {})

\* C13, amended: the collector descends into the value of every field except
\* `messages` and the prompt fields (prompt, input, user_prompt,
\* system_prompt), so a recognized field at any depth is collected unless it
\* lies inside the value of one of those.
C13_FieldsRecursedOutsidePrompts ==
  \A i \in 1..Len(rCands) : FieldsCollected(rCands[i], UnvisitedKeys)

\* a collected record whose content field lies below an unrecognized field
C13_Witness ==
  \E i \in 1..Len(rCands) :
    /\ rCands[i].t = "obj"
    /\ ~HasKey(rCands[i], ContentKey)
    /\ ~HasKey(rCands[i], MessagesKey)
    /\ FieldTexts(rCands[i], {ContentKey}, UnvisitedKeys) # {}
    /\ rState.responseContent # <<>>

\* the message a messages entry gives: its role and its trimmed content
MessageEvent(message) ==
  IF message.t # "obj" THEN <<>>
  ELSE IF trim(extractMessageContent(Field(message, ContentKey))) = <<>> THEN <<>>
  ELSE <<[role |-> IF Field(message, RoleKey).t = "str"
                   THEN Field(message, RoleKey).s ELSE DefaultRole,
          content |-> trim(extractMessageContent(Field(message, ContentKey)))]>>

RECURSIVE MessageEventsOf(_)

\* the messages of a record's own messages array
OwnMessageEvents(record) ==
  IF Field(record, MessagesKey).t # "arr" THEN <<>>
  ELSE Join([i \in 1..Len(Field(record, MessagesKey).items) |->
               MessageEvent(Field(record, MessagesKey).items[i])], <<>>)

\* The messages with non-blank content the collector hands to
\* collectPromptMessage for a candidate, in order.
MessageEventsOf(value) ==
  IF value.t = "arr"
  THEN Join([i \in 1..Len(value.items) |-> MessageEventsOf(value.items[i])], <<>>)
  ELSE IF value.t = "obj"
  THEN OwnMessageEvents(value)
       \o Join([i \in 1..Len(value.keys) |->
                  IF value.keys[i] \in UnvisitedKeys THEN <<>>
                  ELSE MessageEventsOf(value.vals[i])], <<>>)
  ELSE <<>>

MessageEvents == Join([i \in 1..Len(rCands) |-> MessageEventsOf(rCands[i])], <<>>)

\* the positions at which a message's role differs from the one before
RunStarts(events) ==
  {i \in 1..Len(events) : i = 1 \/ events[i].role # events[i - 1].role}

NthRunStart(events, k) ==
  CHOOSE i \in RunStarts(events) : Cardinality({j \in RunStarts(events) : j <= i}) = k

NthRunEnd(events, k) ==
  IF k = Cardinality(RunStarts(events)) THEN Len(events)
  ELSE NthRunStart(events, k + 1) - 1

\* the contents of events[a..b] merged from left to right with mergeChunk
RECURSIVE MergedRun(_, _, _)
MergedRun(events, a, b) ==
  IF a = b THEN events[a].content
  ELSE mergeChunk(MergedRun(events, a, b - 1), events[b].content)

\* C15: after any sequence of collectPromptMessage calls no two adjacent
\* entries of state.promptMessages have the same role: the entries are the
\* runs of consecutive same-role messages, a message of the last entry's role
\* being merged into it with mergeChunk and a message of another role
\* appended as a new entry.
C15_SequenceRolesAlternate ==
  /\ \A i \in 1..(Len(rState.promptMessages) - 1) :
       rState.promptMessages[i].role # rState.promptMessages[i + 1].role
  /\ Len(rState.promptMessages) = Cardinality(RunStarts(MessageEvents))
  /\ \A k \in 1..Len(rState.promptMessages) :
       /\ rState.promptMessages[k].role = MessageEvents[NthRunStart(MessageEvents, k)].role
       /\ rState.promptMessages[k].content =
            MergedRun(MessageEvents, NthRunStart(MessageEvents, k),
                      NthRunEnd(MessageEvents, k))

\* two messages of one role merged into an entry, one of another role appended
C15_Witness ==
  /\ Len(MessageEvents) >= 3
  /\ Len(rState.promptMessages) = 2
  /\ MessageEvents[1].role = MessageEvents[2].role
  /\ MessageEvents[1].content # MessageEvents[2].content

\* the texts the pool's lines hold only as the content of a messages entry
MessageOnlyTexts == {<<"h", "i">>, <<"y", "o">>, <<"o", "k">>}

\* C18: text that occurs only as the content of a `messages` entry is
\* accumulated into the prompt fields only, never into the response content,
\* text or reasoning channels, for every line shape, `messages: [...]` and
\* `messages=[...]` included.
C18_ChannelSeparation ==
  \A text \in MessageOnlyTexts :
    /\ ~includes(rState.responseContent, text)
    /\ ~includes(rState.responseReasoning, text)
    /\ ~includes(rState.responseText, text)

====
